---------------------------- MODULE Spec2Model ----------------------------
(***************************************************************************)
(* A model of the zfactor library (package zfactor and package cubic):    *)
(* the analytic cubic solver SolveCubic, the cubic equations of state     *)
(* (SolveForVolume, Pressure, LogFugacity) and the saturation-pressure    *)
(* iteration SaturationPressure.                                          *)
(*                                                                         *)
(* Numbers.  The library computes in float64.  The model computes in a    *)
(* binary fixed-point format: the integer n stands for the real number    *)
(* n / Scale.  As in float64, every multiplication and division rounds    *)
(* its exact result to the nearest representable number, dyadic inputs    *)
(* such as 1/8 or 27/64 are exact and decimal ones such as 0.9 are        *)
(* rounded.  The elementary functions of the Go math library (Sqrt,       *)
(* Cbrt, Cos, Acos, Exp, Log) are computed to within a few units of the   *)
(* last place.  Only the width differs from float64: tolerances of the    *)
(* code smaller than one unit (1e-9, 1e-8) therefore accept exactly the   *)
(* value 0, and inputs are kept in the range the format can hold.         *)
(*                                                                         *)
(* Evaluation.  Go evaluates a local once and then uses its value.  The   *)
(* arithmetic is written as functions, which take values, and a local     *)
(* x := e of type S is written Let(e, [x \in S |-> ...]), which evaluates  *)
(* e once.                                                                 *)
(***************************************************************************)
EXTENDS Integers, Sequences, FiniteSets

VARIABLES
    op,      \* the exported function being called
    at,      \* "call": not yet run, "loop": inside SaturationPressure's loop, "done": returned
    coef,    \* SolveCubic's arguments <<a, b, c, d>>
    cfg,     \* the caller's *EOSCfg
    arg,     \* the float64 argument: volume (Pressure) or T (SaturationPressure)
    ret,     \* what the call returned
    sat      \* SaturationPressure's locals and the calls it has made

vars == <<op, at, coef, cfg, arg, ret, sat>>

\* x := e; f[x]: the value of f at the value of e.
Let(e, f) == f[e]

---------------------------------------------------------------------------
(* Fixed-point arithmetic *)

Scale == 2^14

Abs[x \in Int] == IF x < 0 THEN -x ELSE x

\* x / n for a positive integer n, rounded to nearest.
DivInt[x \in Int, n \in Int] ==
    LET q == IF 2 * (Abs[x] % n) >= n THEN Abs[x] \div n + 1 ELSE Abs[x] \div n
    IN  IF x >= 0 THEN q ELSE -q

\* The float64 literal n/d, for n >= 0.
Lit[n \in Int, d \in Int] == (n \div d) * Scale + DivInt[(n % d) * Scale, d]

\* x * y, rounded to nearest; the partial products keep within 32 bits.
Mul[x \in Int, y \in Int] ==
    LET a1 == Abs[x] \div Scale
        a0 == Abs[x] % Scale
        b1 == Abs[y] \div Scale
        b0 == Abs[y] % Scale
        r  == a1 * b1 * Scale + a1 * b0 + a0 * b1
                + (a0 * b0 + Scale \div 2) \div Scale
    IN  IF (x >= 0) = (y >= 0) THEN r ELSE -r

\* Long division: <<quotient, remainder>> after n more digits of w bits each.
DivDigits[q \in Int, r \in Int, y \in Int, w \in Int, n \in Int] ==
    IF n = 0 THEN <<q, r>>
    ELSE DivDigits[2^w * q + (2^w * r) \div y, (2^w * r) % y, y, w, n - 1]

\* x / y for y # 0, rounded to nearest.
Div[x \in Int, y \in Int] ==
    LET qr == IF Abs[y] < 2^24
              THEN DivDigits[Abs[x] \div Abs[y], Abs[x] % Abs[y], Abs[y], 7, 2]
              ELSE DivDigits[Abs[x] \div Abs[y], Abs[x] % Abs[y], Abs[y], 1, 14]
    IN  Let(qr, [v \in Int \X Int |->
            IF (x >= 0) = (y > 0)
            THEN (IF 2 * v[2] >= Abs[y] THEN v[1] + 1 ELSE v[1])
            ELSE -(IF 2 * v[2] >= Abs[y] THEN v[1] + 1 ELSE v[1])])

\* <<floor(r*r/Scale), whether r*r/Scale is an integer>> for r >= 0.
SqFloor[r \in Int] ==
    LET r1 == r \div Scale
        r0 == r % Scale
    IN  <<r1 * r1 * Scale + 2 * r1 * r0 + (r0 * r0) \div Scale, (r0 * r0) % Scale = 0>>

\* Whether r*r <= x, exactly.
SqLe[r \in Int, x \in Int] ==
    IF r \div Scale > 360 THEN FALSE
    ELSE Let(SqFloor[r], [s \in Int \X BOOLEAN |-> s[1] < x \/ (s[1] = x /\ s[2])])

\* math.Sqrt: the largest r with r*r <= x, found one hexadecimal digit a step.
SqrtDigits[x \in Int, r \in Int, k \in Int] ==
    IF k < 0 THEN r
    ELSE SqrtDigits[x, r + 16^k * Cardinality({j \in 1 .. 15 : SqLe[r + j * 16^k, x]}), k - 1]

Sqrt[x \in Int] == IF x <= 0 THEN 0 ELSE SqrtDigits[x, 0, 5]

\* <<floor(r*r*r/Scale^2), whether r*r*r/Scale^2 is an integer>> for r >= 0.
CubeFloor[r \in Int] ==
    LET r1  == r \div Scale
        r0  == r % Scale
        sq0 == r0 * r0
        d0  == sq0 % Scale
        t1  == 2 * r1 * r0 + sq0 \div Scale
        d1  == t1 % Scale
        d2  == r1 * r1 + t1 \div Scale
        p0  == d0 * r0
        t   == d1 * r0 + d0 * r1 + p0 \div Scale
    IN  <<d2 * r0 + d1 * r1 + t \div Scale + d2 * r1 * Scale,
          t % Scale = 0 /\ p0 % Scale = 0>>

\* Whether r*r*r <= x, exactly.
CubeLe[r \in Int, x \in Int] ==
    IF r \div Scale > 49 THEN FALSE
    ELSE Let(CubeFloor[r], [s \in Int \X BOOLEAN |-> s[1] < x \/ (s[1] = x /\ s[2])])

\* math.Cbrt: the real cube root, sign kept, the largest magnitude r with
\* r^3 <= |x|, found one hexadecimal digit a step.
CbrtDigits[x \in Int, r \in Int, k \in Int] ==
    IF k < 0 THEN r
    ELSE CbrtDigits[x, r + 16^k * Cardinality({j \in 1 .. 15 : CubeLe[r + j * 16^k, x]}), k - 1]

Cbrt[x \in Int] == IF x >= 0 THEN CbrtDigits[x, 0, 4] ELSE -CbrtDigits[-x, 0, 4]

Pi    == 51472      \* math.Pi   = 3.14159265...
Ln2   == 11357      \* math.Ln2  = 0.69314718...

\* The polynomial 1 - u/2 (1 - u/12 (1 - u/30 (1 - u/56 (1 - u/90)))) of cos at u = x^2.
CosPoly[u \in Int] ==
    Scale - Mul[DivInt[u, 2],
                Scale - Mul[DivInt[u, 12],
                            Scale - Mul[DivInt[u, 30],
                                        Scale - Mul[DivInt[u, 56], Scale - DivInt[u, 90]]]]]

\* cos on [0, Pi/2]: the Taylor polynomial to x^10.
CosQ[x \in Int] == CosPoly[Mul[x, x]]

\* math.Cos.
Cos[x \in Int] ==
    LET y == Abs[x] % (2 * Pi)
        z == IF y > Pi THEN 2 * Pi - y ELSE y
    IN  IF z > Pi \div 2 THEN -CosQ[Pi - z] ELSE CosQ[z]

\* math.Sin.
Sin[x \in Int] == Cos[Pi \div 2 - x]

\* math.Acos on [-1, 1]: the largest angle t in [0, Pi] with cos(t) >= x, found
\* one hexadecimal digit a step.
AcosDigits[x \in Int, t \in Int, k \in Int] ==
    IF k < 0 THEN t
    ELSE AcosDigits[x,
            t + 16^k * Cardinality({j \in 1 .. 15 : t + j * 16^k <= Pi /\ Cos[t + j * 16^k] >= x}),
            k - 1]

Acos[x \in Int] ==
    IF x >= Scale THEN 0
    ELSE IF x <= -Scale THEN Pi
    ELSE AcosDigits[x, 0, 3]

\* exp on [0, Ln2): the Taylor polynomial to r^7.
ExpR[r \in Int] ==
    Scale + Mul[r,
      Scale + Mul[DivInt[r, 2],
        Scale + Mul[DivInt[r, 3],
          Scale + Mul[DivInt[r, 4],
            Scale + Mul[DivInt[r, 5],
              Scale + Mul[DivInt[r, 6], Scale + DivInt[r, 7]]]]]]]

\* math.Exp: 2^k * exp(r) with x = k*Ln2 + r.  Above ExpMax the format cannot
\* hold the result and the largest one is returned (float64 returns +Inf).
ExpMax == 11 * Scale

ExpScaled[e \in Int, k \in Int] ==
    IF k >= 0 THEN e * 2^k
    ELSE IF -k >= 30 THEN 0
    ELSE (e + 2^(-k - 1)) \div 2^(-k)

Exp[x \in Int] ==
    LET y == IF x > ExpMax THEN ExpMax ELSE x
    IN  ExpScaled[ExpR[y - (y \div Ln2) * Ln2], y \div Ln2]

\* The k with 2^k <= x/Scale < 2^(k+1), for x > 0.
Exponent[x \in Int] ==
    CHOOSE k \in -14 .. 16 : 2^(14 + k) <= x /\ (k = 16 \/ x < 2^(15 + k))

\* The series 2*atanh(z) = 2z (1 + z^2/3 + z^4/5 + z^6/7 + z^8/9) at u = z^2.
AtanhPoly[z \in Int, u \in Int] ==
    2 * Mul[z, Scale + Mul[u, DivInt[Scale, 3] + Mul[u, DivInt[Scale, 5]
                + Mul[u, DivInt[Scale, 7] + Mul[u, DivInt[Scale, 9]]]]]]

\* ln(m) for 1 <= m < 2: 2*atanh((m-1)/(m+1)).
LogMantissa[z \in Int] == AtanhPoly[z, Mul[z, z]]

\* math.Log for x > 0: k*Ln2 + ln(m) with x = m * 2^k, 1 <= m < 2.
LogParts[x \in Int, k \in Int] ==
    LET m == IF k >= 0 THEN x \div 2^k ELSE x * 2^(-k)
    IN  k * Ln2 + LogMantissa[Div[m - Scale, m + Scale]]

Log[x \in Int] == LogParts[x, Exponent[x]]

\* complex128 as <<real, imag>>.
Complex == Int \X Int

CAdd[x \in Complex, y \in Complex] == <<x[1] + y[1], x[2] + y[2]>>
CSub[x \in Complex, y \in Complex] == <<x[1] - y[1], x[2] - y[2]>>
CMul[x \in Complex, y \in Complex] ==
    <<Mul[x[1], y[1]] - Mul[x[2], y[2]], Mul[x[1], y[2]] + Mul[x[2], y[1]]>>

---------------------------------------------------------------------------
(* package zfactor: SolveCubic *)

NoError       == "nil"
NotCubicError == "equation provided is not cubic (a = 0)"

\* cmplx.Pow(complex(x, 0), 1.0/3): the modulus to the power 1/3 turned by a
\* third of the phase of x, which is 0 for x > 0 and Pi for x < 0; 0 for x = 0.
CPowThird[x \in Int] ==
    IF x = 0 THEN <<0, 0>>
    ELSE IF x > 0 THEN <<Cbrt[x], 0>>
    ELSE Let(Cbrt[-x], [r \in Int |-> <<Mul[r, Cos[DivInt[Pi, 3]]], Mul[r, Sin[DivInt[Pi, 3]]]>>])

ZeroRoots == <<<<0, 0>>, <<0, 0>>, <<0, 0>>>>

\* The cube roots of unity omega and omega2.
Omega  == <<-(Scale \div 2), Sqrt[3 * Scale] \div 2>>
Omega2 == <<-(Scale \div 2), -(Sqrt[3 * Scale] \div 2)>>

\* What SolveCubic returns: the roots and the error, and with them the locals
\* the properties below refer to (divided: the coefficients were divided by a).
CubicResults ==
    [roots : Seq(Complex), err : STRING, divided : BOOLEAN,
     p : Int, q : Int, delta : Int, u : Complex, v : Complex,
     trig : BOOLEAN, r : Int, acosArg : Int]

\* What SolveCubic returns on a = 0: zero roots and the error.
NotCubic ==
    [roots |-> ZeroRoots, err |-> NotCubicError, divided |-> FALSE,
     p |-> 0, q |-> 0, delta |-> 0, u |-> <<0, 0>>, v |-> <<0, 0>>,
     trig |-> FALSE, r |-> 0, acosArg |-> 0]

\* The argument of math.Acos with the 2 of the denominator left out.
AcosArgumentUnhalved(p, q) == Div[-q, Sqrt[DivInt[-Mul[Mul[p, p], p], 27]]]

\* -q / (2 * math.Sqrt(-(p*p*p)/27)), the argument of math.Acos.
AcosArgument(p, q) == Div[-q, 2 * Sqrt[DivInt[-Mul[Mul[p, p], p], 27]]]

\* SolveCubic past its check of a.
CubicRoots(a, b0, c0, d0) ==
    Let(Div[b0, a], [b \in Int |->
    Let(Div[c0, a], [c \in Int |->
    Let(Div[d0, a], [d \in Int |->
    Let(c - DivInt[Mul[b, b], 3], [p \in Int |->
    Let(DivInt[Mul[Mul[2 * b, b], b], 27] - DivInt[Mul[b, c], 3] + d, [q \in Int |->
    Let(DivInt[Mul[q, q], 4] + DivInt[Mul[Mul[p, p], p], 27], [delta \in Int |->
    Let(<<DivInt[b, 3], 0>>, [shift \in Complex |->
        IF delta >= 0
        THEN Let(CPowThird[DivInt[-q, 2] + Sqrt[delta]], [u \in Complex |->
             Let(CPowThird[DivInt[-q, 2] - Sqrt[delta]], [v \in Complex |->
                 [roots |-> <<CSub[CAdd[u, v], shift],
                              CSub[CAdd[CMul[u, Omega], CMul[v, Omega2]], shift],
                              CSub[CAdd[CMul[u, Omega2], CMul[v, Omega]], shift]>>,
                  err |-> NoError, divided |-> TRUE,
                  p |-> p, q |-> q, delta |-> delta, u |-> u, v |-> v,
                  trig |-> FALSE, r |-> 0, acosArg |-> 0]])])
        ELSE Let(Sqrt[DivInt[Mul[Mul[-p, p], p], 27]], [r \in Int |->
             Let(Acos[AcosArgument(p, q)], [phi \in Int |->
             Let(2 * Cbrt[r], [t \in Int |->
                 [roots |-> <<CSub[<<Mul[t, Cos[DivInt[phi, 3]]], 0>>, shift],
                              CSub[<<Mul[t, Cos[DivInt[phi + 2 * Pi, 3]]], 0>>, shift],
                              CSub[<<Mul[t, Cos[DivInt[phi + 4 * Pi, 3]]], 0>>, shift]>>,
                  err |-> NoError, divided |-> TRUE,
                  p |-> p, q |-> q, delta |-> delta, u |-> <<0, 0>>, v |-> <<0, 0>>,
                  trig |-> TRUE, r |-> r, acosArg |-> AcosArgument(p, q)]])])])
    ])])])])])])])

\* SolveCubic with the check of a left out.
SolveCubicUnchecked(a, b0, c0, d0) ==
    IF a = 0 THEN [NotCubic EXCEPT !.err = NoError] ELSE CubicRoots(a, b0, c0, d0)

\* SolveCubic(a, b, c, d).
SolveCubic(a, b0, c0, d0) ==
    IF a = 0 THEN NotCubic ELSE CubicRoots(a, b0, c0, d0)

---------------------------------------------------------------------------
(* package cubic: the equations of state *)

TempErr           == "absolute temperature (T) cannot be less than or equal to 0"
PressErr          == "pressure (P) cannot be less than 0"
CriticalPropErr   == "critical property (Tc or Pc) cannot have a value less than or equal to 0"
UniversalConstErr == "universal gas constant (R) value cannot be less than or equal to 0"
WrappedCubicErr   == "failed to solve cubic: equation provided is not cubic (a = 0)"

ValidationErrs == {TempErr, PressErr, CriticalPropErr, UniversalConstErr}

\* The four implementations of EOSType.
EOSTypes == {"vdW", "rk", "srk", "pr"}

\* The Params value each implementation returns.
vdWParams == [Sigma |-> 0, Epsilon |-> 0, Omega |-> Lit[1, 8], Psi |-> Lit[27, 64]]
rkParams  == [Sigma |-> Scale, Epsilon |-> 0,
              Omega |-> Lit[8664, 100000], Psi |-> Lit[42728, 100000]]
srkParams == [Sigma |-> Scale, Epsilon |-> 0,
              Omega |-> Lit[8664, 100000], Psi |-> Lit[42728, 100000]]
prParams  == [Sigma |-> Scale + Sqrt[2 * Scale], Epsilon |-> Scale - Sqrt[2 * Scale],
              Omega |-> Lit[7780, 100000], Psi |-> Lit[45724, 100000]]

\* Params().
Params[type \in EOSTypes] ==
    CASE type = "vdW" -> vdWParams
      [] type = "rk"  -> rkParams
      [] type = "srk" -> srkParams
      [] type = "pr"  -> prParams

\* The c * c that the srk and pr Alpha return, from a and b.
AlphaSquare[a \in Int, b \in Int] ==
    Let(Scale + Mul[a, b], [c \in Int |-> Mul[c, c]])

\* Alpha(tr, w).
Alpha[type \in EOSTypes, tr \in Int, w \in Int] ==
    CASE type = "vdW" -> Scale
      [] type = "rk"  -> Div[Scale, Sqrt[tr]]
      [] type = "srk" ->
            AlphaSquare[Lit[480, 1000] + Mul[Lit[1574, 1000], w] - Mul[Mul[Lit[716, 1000], w], w],
                        Scale - Sqrt[tr]]
      [] type = "pr"  ->
            AlphaSquare[Lit[37464, 100000] + Mul[Lit[154226, 100000], w]
                            - Mul[Mul[Lit[26992, 100000], w], w],
                        Scale - Sqrt[tr]]

calculateb[omega \in Int, r \in Int, tc \in Int, pcr \in Int] ==
    Div[Mul[Mul[omega, r], tc], pcr]

calculatea[psi \in Int, alpha \in Int, r \in Int, tc \in Int, pcr \in Int] ==
    Div[Mul[Mul[Mul[Mul[Mul[psi, alpha], r], r], tc], tc], pcr]

\* How often Alpha, Params and SolveCubic were called.
Calls == [Alpha : Nat, Params : Nat, SolveCubic : Nat]

NoCalls == [Alpha |-> 0, Params |-> 0, SolveCubic |-> 0]

\* *VolumeResult and *PressureResult (nil: the nil pointer) with the error
\* returned beside them and the calls made on the way.
VolumeResults ==
    [nil : BOOLEAN, A : Int, B : Int, P : Int, Volumes : Seq(Complex), err : STRING,
     calls : Calls]

\* A (nil, err) return of SolveForVolume or Pressure.
NilResult(e) ==
    [nil |-> TRUE, A |-> 0, B |-> 0, P |-> 0, Volumes |-> ZeroRoots, err |-> e,
     calls |-> NoCalls]

\* A leading coefficient of zero for every configuration.
LeadingZero(cf) == 0

\* e := 1.0, the coefficient of V^3 handed to SolveCubic.
LeadingCoefficient(cf) == Scale

\* SolveForVolume past its validation: the cubic in V and its roots.
SolveVolumes(cf) ==
    LET sigma   == Params[cf.Type].Sigma
        epsilon == Params[cf.Type].Epsilon
        omega   == Params[cf.Type].Omega
        psi     == Params[cf.Type].Psi
        x       == epsilon + sigma
        e       == LeadingCoefficient(cf)
        made    == [Alpha |-> 1, Params |-> 4, SolveCubic |-> 1]
    IN  Let(Div[cf.T, cf.Tc], [tr \in Int |->
        Let(Alpha[cf.Type, tr, cf.Acentric], [alpha \in Int |->
        Let(calculatea[psi, alpha, cf.R, cf.Tc, cf.Pc], [a \in Int |->
        Let(calculateb[omega, cf.R, cf.Tc, cf.Pc], [b \in Int |->
        Let(Mul[epsilon, sigma], [y \in Int |->
        Let(Div[Mul[cf.R, cf.Tc], cf.Pc], [v_ig \in Int |->
        Let(Mul[b, x - Scale] - v_ig, [f \in Int |->
        Let(Mul[b, Mul[y - x, b] - Mul[x, v_ig]] + Div[a, cf.P], [g \in Int |->
        Let(Mul[Mul[Mul[-y, b], b], b + v_ig] - Div[Mul[a, b], cf.P], [h \in Int |->
        Let(SolveCubic(e, f, g, h), [solution \in CubicResults |->
            IF solution.err # NoError
            THEN [NilResult(WrappedCubicErr) EXCEPT !.calls = made]
            ELSE [nil |-> FALSE, A |-> a, B |-> b, P |-> 0, Volumes |-> solution.roots,
                  err |-> NoError, calls |-> made]
        ])])])])])])])])])])

\* SolveForVolume with the check of R left out.
SolveForVolumeNoRCheck(cf) ==
    IF cf.T <= 0 THEN NilResult(TempErr)
    ELSE IF cf.P <= 0 THEN NilResult(PressErr)
    ELSE IF cf.Pc <= 0 \/ cf.Tc <= 0 THEN NilResult(CriticalPropErr)
    ELSE SolveVolumes(cf)

\* SolveForVolume with the check of R made first.
SolveForVolumeRFirst(cf) ==
    IF cf.R <= 0 THEN NilResult(UniversalConstErr)
    ELSE IF cf.T <= 0 THEN NilResult(TempErr)
    ELSE IF cf.P <= 0 THEN NilResult(PressErr)
    ELSE IF cf.Pc <= 0 \/ cf.Tc <= 0 THEN NilResult(CriticalPropErr)
    ELSE SolveVolumes(cf)

\* SolveForVolume(cfg).
SolveForVolume(cf) ==
    IF cf.T <= 0 THEN NilResult(TempErr)
    ELSE IF cf.P <= 0 THEN NilResult(PressErr)
    ELSE IF cf.Pc <= 0 \/ cf.Tc <= 0 THEN NilResult(CriticalPropErr)
    ELSE IF cf.R <= 0 THEN NilResult(UniversalConstErr)
    ELSE SolveVolumes(cf)

\* Pressure past its validation: the pressure equation at the volume.
PressureAt(cf, volume) ==
    LET sigma   == Params[cf.Type].Sigma
        epsilon == Params[cf.Type].Epsilon
        omega   == Params[cf.Type].Omega
        psi     == Params[cf.Type].Psi
    IN  Let(Div[cf.T, cf.Tc], [tr \in Int |->
        Let(Alpha[cf.Type, tr, cf.Acentric], [alpha \in Int |->
        Let(calculatea[psi, alpha, cf.R, cf.Tc, cf.Pc], [a \in Int |->
        Let(calculateb[omega, cf.R, cf.Tc, cf.Pc], [b \in Int |->
        Let(volume, [v \in Int |->
        Let(Div[Mul[cf.R, cf.T], v - b], [first \in Int |->
        Let(Div[a, Mul[v + Mul[epsilon, b], v + Mul[sigma, b]]], [second \in Int |->
            [nil |-> FALSE, A |-> a, B |-> b, P |-> first - second, Volumes |-> ZeroRoots,
             err |-> NoError, calls |-> [Alpha |-> 1, Params |-> 4, SolveCubic |-> 0]]
        ])])])])])])])

\* Pressure with SolveForVolume's check of cfg.P added.
PressureCheckingP(cf, volume) ==
    IF cf.T <= 0 THEN NilResult(TempErr)
    ELSE IF cf.P <= 0 THEN NilResult(PressErr)
    ELSE IF cf.Pc <= 0 \/ cf.Tc <= 0 THEN NilResult(CriticalPropErr)
    ELSE IF cf.R <= 0 THEN NilResult(UniversalConstErr)
    ELSE PressureAt(cf, volume)

\* Pressure with the check of R left out.
PressureNoRCheck(cf, volume) ==
    IF cf.T <= 0 THEN NilResult(TempErr)
    ELSE IF cf.Pc <= 0 \/ cf.Tc <= 0 THEN NilResult(CriticalPropErr)
    ELSE PressureAt(cf, volume)

\* Pressure(cfg, volume).
Pressure(cf, volume) ==
    IF cf.T <= 0 THEN NilResult(TempErr)
    ELSE IF cf.Pc <= 0 \/ cf.Tc <= 0 THEN NilResult(CriticalPropErr)
    ELSE IF cf.R <= 0 THEN NilResult(UniversalConstErr)
    ELSE PressureAt(cf, volume)

\* The least number of units that is not below n/d: for a representable x,
\* x < n/d if and only if x < Threshold[n, d].
Threshold[n \in Int, d \in Int] == (n * Scale + d - 1) \div d

\* s with x put in before the first element that is not below it.
Insert[s \in Seq(Int), x \in Int] ==
    IF s = <<>> THEN <<x>>
    ELSE IF x <= Head(s) THEN <<x>> \o s
    ELSE <<Head(s)>> \o Insert[Tail(s), x]

\* slices.Sort: s in ascending order.
Sort[s \in Seq(Int)] == IF s = <<>> THEN <<>> ELSE Insert[Sort[Tail(s)], Head(s)]

\* Clean without slices.Sort(res): the kept real parts in the order of vr.Volumes.
CleanUnsorted(vr) ==
    LET IsReal(value) == Abs[value[2]] < Threshold[1, 1000000000]
    IN  Let(SelectSeq(vr.Volumes, IsReal), [res \in Seq(Complex) |->
            [i \in 1 .. Len(res) |-> res[i][1]]])

\* vr.Volumes after Clean: res is a slice of its own, the receiver is only read.
VolumesAfterClean(vr) == vr.Volumes

\* VolumeResult.Clean(): the real parts of the roots with |imag| < 1e-9, ascending.
Clean(vr) ==
    LET IsReal(value) == Abs[value[2]] < Threshold[1, 1000000000]
    IN  Let(SelectSeq(vr.Volumes, IsReal), [res \in Seq(Complex) |->
        Let([i \in 1 .. Len(res) |-> res[i][1]], [reals \in Seq(Int) |-> Sort[reals]])])

---------------------------------------------------------------------------
(* package cubic: LogFugacity and SaturationPressure *)

\* The test with a tolerance of one: |diff| <= 1.
DegenerateWithinOne(type) ==
    Abs[Params[type].Epsilon - Params[type].Sigma] <= Scale

\* math.Abs(diff) < 1e-9 with diff := epsilon - sigma.
Degenerate(type) ==
    Abs[Params[type].Epsilon - Params[type].Sigma] < Threshold[1, 1000000000]

\* term2 = -A / Z
DegenerateTerm[Z \in Int, A \in Int] == Div[-A, Z]

\* term2 = (A / (B * diff)) * math.Log((Z+sigma*B)/(Z+epsilon*B))
LogRatioTerm[type \in EOSTypes, Z \in Int, A \in Int, B \in Int] ==
    LET sigma   == Params[type].Sigma
        epsilon == Params[type].Epsilon
        diff    == epsilon - sigma
    IN  Mul[Div[A, Mul[B, diff]],
            Log[Div[Z + Mul[sigma, B], Z + Mul[epsilon, B]]]]

\* term1 := Z - 1 - math.Log(Z-B)
FugacityTerm1[Z \in Int, B \in Int] == Z - Scale - Log[Z - B]

\* LogFugacity(cfg, Z, A, B), for Z > B.
LogFugacity[type \in EOSTypes, Z \in Int, A \in Int, B \in Int] ==
    IF Degenerate(type)
    THEN FugacityTerm1[Z, B] + DegenerateTerm[Z, A]
    ELSE FugacityTerm1[Z, B] + LogRatioTerm[type, Z, A, B]

NoConvergenceError == "saturation pressure did not converge"
NoRealRootsError   == "no real roots found"

\* The bound of SaturationPressure's loop.
MaxIterations == 100

\* A float64 that is NaN or infinite.
NotFinite == "NaN or Inf"

\* 1/Tr with Tr := T / cfg.Tc, for T # 0: dividing by a zero Tc gives an
\* infinite Tr, whose reciprocal is zero.
InverseTr[T \in Int, Tc \in Int] ==
    IF Tc = 0 THEN 0 ELSE Div[Scale, Div[T, Tc]]

\* The initial guess P from the Wilson equation.  At T = 0 (below a positive
\* Tc) 1/Tr is +Inf: the exponent is -Inf and P is 0 when 1 + Acentric > 0,
\* and P is NaN or infinite otherwise.
WilsonGuess(cf, T) ==
    IF T = 0
    THEN (IF Scale + cf.Acentric > 0 THEN 0 ELSE NotFinite)
    ELSE Mul[cf.Pc, Exp[Mul[Mul[Lit[5373, 1000], Scale + cf.Acentric],
                            Scale - InverseTr[T, cf.Tc]]]]

\* SaturationPressure returning cfg.P, not cfg.Pc, at and above Tc.
SaturationEntryReturningP(cf, T) ==
    IF T >= cf.Tc
    THEN [returns |-> TRUE, P |-> cf.P, err |-> NoError, guessed |-> FALSE]
    ELSE [returns |-> FALSE, P |-> WilsonGuess(cf, T), err |-> NoError, guessed |-> TRUE]

\* SaturationPressure up to its loop: the return of cfg.Pc at and above Tc,
\* the initial guess below.
SaturationEntry(cf, T) ==
    IF T >= cf.Tc
    THEN [returns |-> TRUE, P |-> cf.Pc, err |-> NoError, guessed |-> FALSE]
    ELSE [returns |-> FALSE, P |-> WilsonGuess(cf, T), err |-> NoError, guessed |-> TRUE]

\* len(roots) < 1 in the place of len(roots) < 3.
TooFewRootsLax(roots) == Len(roots) < 1

\* len(roots) < 3.
TooFewRoots(roots) == Len(roots) < 3

\* math.Abs(phil-phiv) < 1e-8.
Converged(phil, phiv) == Abs[phil - phiv] < Threshold[1, 100000000]

\* The ratio of the update, limited to [0.8, 1.2].
Ratio[phil \in Int, phiv \in Int] ==
    Let(Exp[phil - phiv], [ratio \in Int |->
        IF ratio > Lit[12, 10] THEN Lit[12, 10]
        ELSE IF ratio < Lit[8, 10] THEN Lit[8, 10]
        ELSE ratio])

\* The update with the ratio taken as it is.
UpdatedPressureUnclamped(P, phil, phiv) == Mul[P, Exp[phil - phiv]]

\* ratio := math.Exp(phil - phiv), limited; P = P * ratio.
UpdatedPressure(P, phil, phiv) == Mul[P, Ratio[phil, phiv]]

\* What one pass through the loop body does: kind names the branch taken,
\* returns and err the return (if any), P the returned or the next pressure,
\* fugacities the number of LogFugacity calls made, tested whether the
\* convergence test was reached; the rest are the locals of the pass.
Passes ==
    [kind : STRING, returns : BOOLEAN, err : STRING, P : Int, trial : Int, calls : Calls,
     roots : Seq(Int), B : Int, Zl : Int, Zv : Int, Bdim : Int, phil : Int, phiv : Int,
     fugacities : Nat, tested : BOOLEAN]

NoPass ==
    [kind |-> "none", returns |-> FALSE, err |-> NoError, P |-> 0, trial |-> 0,
     calls |-> NoCalls, roots |-> <<>>, B |-> 0, Zl |-> 0, Zv |-> 0, Bdim |-> 0, phil |-> 0, phiv |-> 0,
     fugacities |-> 0, tested |-> FALSE]

\* The pass from the fugacities on.
FugacityPass(cf, P, pass) ==
    Let(LogFugacity[cf.Type, pass.Zl, pass.A, pass.Bdim], [phil \in Int |->
    Let(LogFugacity[cf.Type, pass.Zv, pass.A, pass.Bdim], [phiv \in Int |->
        IF Converged(phil, phiv)
        THEN [pass.rec EXCEPT !.kind = "converged", !.returns = TRUE, !.P = P,
                              !.phil = phil, !.phiv = phiv,
                              !.fugacities = 2, !.tested = TRUE]
        ELSE [pass.rec EXCEPT !.kind = "update", !.P = UpdatedPressure(P, phil, phiv),
                              !.phil = phil, !.phiv = phiv,
                              !.fugacities = 2, !.tested = TRUE]])])

\* The guard with the liquid root compared with 2*Bdim.
NotAboveTwiceB(Zl, Zv, Bdim) == Zl <= 2 * Bdim \/ Zv <= Bdim

\* if Zl <= Bdim || Zv <= Bdim.
NotAboveB(Zl, Zv, Bdim) == Zl <= Bdim \/ Zv <= Bdim

\* The pass once three roots are at hand.
ThreeRootPass(cf, T, P, volRes, roots, rec) ==
    Let(Mul[cf.R, T], [RT \in Int |->
    Let(Div[Mul[volRes.A, P], Mul[RT, RT]], [Adim \in Int |->
    Let(Div[Mul[volRes.B, P], RT], [Bdim \in Int |->
    Let(Div[Mul[P, roots[1]], RT], [Zl \in Int |->
    Let(Div[Mul[P, roots[Len(roots)]], RT], [Zv \in Int |->
    Let([rec EXCEPT !.Zl = Zl, !.Zv = Zv, !.Bdim = Bdim], [r \in Passes |->
        IF NotAboveB(Zl, Zv, Bdim)
        THEN [r EXCEPT !.kind = "perturb", !.P = Mul[P, Lit[95, 100]]]
        ELSE FugacityPass(cf, P, [Zl |-> Zl, Zv |-> Zv, A |-> Adim, Bdim |-> Bdim, rec |-> r])
    ])])])])])])

\* The copy with iterCfg.T = T left out: the pass works at cfg.T.
IterCfgKeepingT(cf, T, P) == [cf EXCEPT !.P = P]

\* iterCfg := *cfg; iterCfg.P = P; iterCfg.T = T: the copy the pass works on.
IterCfg(cf, T, P) == [cf EXCEPT !.P = P, !.T = T]

\* *cfg after a pass that would assign P and T through the pointer.
CfgWrittenInPlace(cf, T, P) == IterCfg(cf, T, P)

\* *cfg after a pass: the assignments go to the copy, *cfg is as it was.
CfgAfterPass(cf, T, P) == cf

\* The heuristic with its two factors exchanged.
HeuristicPressureSwapped(P, V, b) ==
    IF V < 2 * b THEN Mul[P, Lit[11, 10]] ELSE Mul[P, Lit[9, 10]]

\* if V < 2*b { P = P * 0.9 } else { P = P * 1.1 }.
HeuristicPressure(P, V, b) ==
    IF V < 2 * b THEN Mul[P, Lit[9, 10]] ELSE Mul[P, Lit[11, 10]]

\* The error of SolveForVolume returned inside a new error.
LoopErrorWrapped(err) == "saturation pressure: " \o err

\* return 0, err: the error of SolveForVolume as it came.
LoopError(err) == err

\* One pass through the loop body at the trial pressure P.
LoopPass(cf, T, P) ==
    Let(SolveForVolume(IterCfg(cf, T, P)), [volRes \in VolumeResults |->
        IF volRes.err # NoError
        THEN [NoPass EXCEPT !.kind = "error", !.returns = TRUE, !.err = LoopError(volRes.err),
                          !.trial = P,
                          !.calls = volRes.calls]
        ELSE Let(Clean(volRes), [roots \in Seq(Int) |->
             Let([NoPass EXCEPT !.trial = P, !.calls = volRes.calls, !.roots = roots,
                               !.B = volRes.B], [rec \in Passes |->
                 IF TooFewRoots(roots)
                 THEN IF Len(roots) = 0
                      THEN [rec EXCEPT !.kind = "no roots", !.returns = TRUE,
                                       !.err = NoRealRootsError]
                      ELSE IF roots[1] < 2 * volRes.B
                      THEN [rec EXCEPT !.kind = "decrease",
                                       !.P = HeuristicPressure(P, roots[1], volRes.B)]
                      ELSE [rec EXCEPT !.kind = "increase",
                                       !.P = HeuristicPressure(P, roots[1], volRes.B)]
                 ELSE ThreeRootPass(cf, T, P, volRes, roots, rec)])])])

\* The loop counter after a pass that counts only the fugacity updates.
NextIterUpdatesOnly(iter, kind) == IF kind = "update" THEN iter + 1 ELSE iter

\* The loop counter after a pass: for range 100 counts every pass.
NextIter(iter, kind) == iter + 1

---------------------------------------------------------------------------
(* The calls of SolveCubic: every choice of the coefficients a, b, c, d    *)
(* among the integers from -MaxCoef to MaxCoef.                            *)

MaxCoef == 3

Coefs == {k * Scale : k \in -MaxCoef .. MaxCoef}

NoCfg == [Type |-> "none", T |-> 0, P |-> 0, Tc |-> 0, Pc |-> 0, Acentric |-> 0, R |-> 0]
NoRet == [err |-> "pending"]
NoSat == [iter |-> 0]

InitCubic ==
    /\ op = "SolveCubic"
    /\ at = "call"
    /\ coef \in Coefs \X Coefs \X Coefs \X Coefs
    /\ cfg = NoCfg
    /\ arg = 0
    /\ ret = NoRet
    /\ sat = NoSat

CallSolveCubic ==
    /\ op = "SolveCubic"
    /\ at = "call"
    /\ ret' = SolveCubic(coef[1], coef[2], coef[3], coef[4])
    /\ at' = "done"
    /\ UNCHANGED <<op, coef, cfg, arg, sat>>

NextCubic == CallSolveCubic

SpecCubic == InitCubic /\ [][NextCubic]_vars

\* a*x^3 + b*x^2 + c*x + d at the complex number x.
Residual(k, x) ==
    LET S(r, z) == <<Mul[r, z[1]], Mul[r, z[2]]>>
    IN  Let(CMul[x, x], [x2 \in Complex |->
        Let(CMul[x2, x], [x3 \in Complex |->
            CAdd[CAdd[S(k[1], x3), S(k[2], x2)], CAdd[S(k[3], x), <<k[4], 0>>]]])])

CubicDone == op = "SolveCubic" /\ at = "done"

\* The format rounds far more coarsely than 1e-6; the residual is held to 1,
\* a bound that every residual below 1e-6 meets.
ResidualTol == Scale

\* C1: for every a # 0 each returned root has a residual a*x^3 + b*x^2 + c*x + d
\* of small magnitude (here: both parts below 1, implied by 1e-6).
C1_ResidualSmall ==
    (CubicDone /\ coef[1] # 0) =>
        \A i \in 1 .. 3 :
            /\ Abs[Residual(coef, ret.roots[i])[1]] < ResidualTol
            /\ Abs[Residual(coef, ret.roots[i])[2]] < ResidualTol

\* C2: SolveCubic returns the not-cubic error exactly when a = 0, with zero
\* roots and before any division by a; for a # 0 the error is nil.
C2_ErrorIffNotCubic ==
    CubicDone =>
        /\ (ret.err = NotCubicError) <=> (coef[1] = 0)
        /\ (ret.err = NoError) <=> (coef[1] # 0)
        /\ coef[1] = 0 => (ret.roots = ZeroRoots /\ ~ret.divided)

C2_Witness ==
    CubicDone /\ coef[1] = 0 /\ ret.err = NotCubicError /\ coef[2] # 0

\* C3: with Delta < 0 all three roots have imaginary part exactly 0; with
\* Delta >= 0 the cube roots u and v are real, the first root is real and the
\* other two are complex conjugates of each other.
C3_RootClassification ==
    (CubicDone /\ coef[1] # 0) =>
        /\ ret.delta < 0 => \A i \in 1 .. 3 : ret.roots[i][2] = 0
        /\ ret.delta >= 0 =>
              /\ ret.u[2] = 0 /\ ret.v[2] = 0
              /\ ret.roots[1][2] = 0
              /\ ret.roots[2][1] = ret.roots[3][1]
              /\ ret.roots[2][2] = -ret.roots[3][2]

---------------------------------------------------------------------------
(* The calls of SolveForVolume and Pressure: every configuration whose T,  *)
(* P, Tc, Pc and R are integers from -1 to MaxField, and Pressure taken    *)
(* also at each clean root above b that SolveForVolume has returned.       *)

MaxField == 2

Fields == {k * Scale : k \in -1 .. MaxField}

Acentrics == {0, Scale \div 4}

Cfgs ==
    [Type : EOSTypes, T : Fields, P : Fields, Tc : Fields, Pc : Fields,
     Acentric : Acentrics, R : Fields]

\* The volumes Pressure is called at directly.
TrialVolumes == {Lit[7, 16], Lit[11, 16], 2 * Scale}

InitEOS ==
    /\ op \in {"SolveForVolume", "Pressure"}
    /\ at = "call"
    /\ coef = <<0, 0, 0, 0>>
    /\ cfg \in Cfgs
    /\ arg \in IF op = "Pressure" THEN TrialVolumes ELSE {0}
    /\ ret = NoRet
    /\ sat = NoSat

CallSolveForVolume ==
    /\ op = "SolveForVolume"
    /\ at = "call"
    /\ ret' = SolveForVolume(cfg)
    /\ at' = "done"
    /\ UNCHANGED <<op, coef, cfg, arg, sat>>

CallPressure ==
    /\ op = "Pressure"
    /\ at = "call"
    /\ ret' = Pressure(cfg, arg)
    /\ at' = "done"
    /\ UNCHANGED <<op, coef, cfg, arg, sat>>

\* The round trip: Pressure(cfg, V) for a clean root V > b of SolveForVolume(cfg).
CallPressureAtRoot ==
    /\ op = "SolveForVolume"
    /\ at = "done"
    /\ ret.err = NoError
    /\ \E V \in {Clean(ret)[i] : i \in 1 .. Len(Clean(ret))} :
          /\ V > ret.B
          /\ arg' = V
          /\ ret' = Pressure(cfg, V)
    /\ op' = "RoundTrip"
    /\ UNCHANGED <<at, coef, cfg, sat>>

NextEOS == CallSolveForVolume \/ CallPressure \/ CallPressureAtRoot

SpecEOS == InitEOS /\ [][NextEOS]_vars

SolveForVolumeDone == op = "SolveForVolume" /\ at = "done"
PressureDone       == op = "Pressure" /\ at = "done"
RoundTripDone      == op = "RoundTrip" /\ at = "done"

\* The validation errors of the fields of cf that are not positive, T being
\* the temperature the call is made for.
ViolatedKinds(cf, T) ==
    (IF T <= 0 THEN {TempErr} ELSE {})
        \cup (IF cf.P <= 0 THEN {PressErr} ELSE {})
        \cup (IF cf.Tc <= 0 \/ cf.Pc <= 0 THEN {CriticalPropErr} ELSE {})
        \cup (IF cf.R <= 0 THEN {UniversalConstErr} ELSE {})

C6_PressureValidatesAllButP ==
    PressureDone =>
        IF cfg.T <= 0 \/ cfg.Tc <= 0 \/ cfg.Pc <= 0 \/ cfg.R <= 0
        THEN /\ ret.nil
             /\ ret.err \in ViolatedKinds(cfg, cfg.T) \ {PressErr}
             /\ ret.calls = NoCalls
        ELSE ~ret.nil /\ ret.err = NoError

C6_Witness ==
    /\ PressureDone
    /\ cfg.P <= 0 /\ cfg.T > 0 /\ cfg.Tc > 0 /\ cfg.Pc > 0 /\ cfg.R > 0
    /\ ~ret.nil /\ ret.err = NoError

\* C6 as stated: Pressure returns a validation error, before any numeric
\* work, whenever any of T, P, Tc, Pc, R is not positive.
C6_PressureValidatesAll ==
    (PressureDone /\ ViolatedKinds(cfg, cfg.T) # {}) =>
        /\ ret.nil
        /\ ret.err \in ValidationErrs
        /\ ret.calls = NoCalls

\* What the round trip may differ by: rounding moves the pressure by less.
RoundTripTol == Scale \div 4

\* C7: for every validated cfg and every clean real root V > b of
\* SolveForVolume(cfg), Pressure(cfg, V).P equals cfg.P within tolerance.
C7_RoundTrip ==
    RoundTripDone => Abs[ret.P - cfg.P] < RoundTripTol

\* The round trip where it does hold: at T/P = Tc/Pc, where R*Tc/Pc = R*T/P.
RoundTripOnCriticalRatio ==
    (RoundTripDone /\ Mul[cfg.T, cfg.Pc] = Mul[cfg.Tc, cfg.P]) =>
        Abs[ret.P - cfg.P] < RoundTripTol


\* C15: every VolumeResult and PressureResult returned with a nil error has
\* B > 0: b = Omega*R*Tc/Pc with Omega, R, Tc and Pc all positive.
C15_PositiveB ==
    (SolveForVolumeDone \/ PressureDone \/ RoundTripDone) /\ ret.err = NoError
        => ~ret.nil /\ ret.B > 0
              /\ ret.B = calculateb[Params[cfg.Type].Omega, cfg.R, cfg.Tc, cfg.Pc]

C15_Witness ==
    /\ PressureDone
    /\ ret.err = NoError
    /\ cfg.Type = "pr"
    /\ cfg.Pc = MaxField * Scale
    /\ cfg.Tc = Scale
    /\ cfg.R = Scale
    /\ ret.B > 0
    /\ ret.B < Lit[1, 16]

\* C16: SolveForVolume hands SolveCubic the leading coefficient 1, so the
\* not-cubic error of SolveCubic never comes back wrapped: every error of
\* SolveForVolume is one of the four validation errors, and every call that
\* reaches SolveCubic succeeds.
C16_NeverNotCubic ==
    SolveForVolumeDone =>
        /\ LeadingCoefficient(cfg) = Scale
        /\ ret.err # WrappedCubicErr
        /\ ret.err \in ValidationErrs \cup {NoError}
        /\ ret.calls.SolveCubic = 1 => ret.err = NoError /\ ~ret.nil

C16_Witness ==
    /\ SolveForVolumeDone
    /\ ret.calls.SolveCubic = 1
    /\ ret.err = NoError
    /\ SolveCubic(0, 0, 0, 0).err = NotCubicError

---------------------------------------------------------------------------
(* The calls of SaturationPressure: one step enters the function, one step *)
(* is one pass through the loop body, one step leaves the exhausted loop.  *)

MaxTemp == 2

SatTemps == {-Scale, 0, Lit[3, 4], Lit[15, 16]} \cup {k * Scale : k \in 1 .. MaxTemp}

SatAcentrics == {-Lit[5, 4], -Lit[9, 8], -Scale, 0}

SatCfgs ==
    [Type : EOSTypes, T : {0, Scale}, P : {0, Scale}, Tc : {-Scale, 0, Scale},
     Pc : {0, Scale}, Acentric : SatAcentrics, R : {0, Scale}]

InitSat ==
    /\ op = "SaturationPressure"
    /\ at = "call"
    /\ coef = <<0, 0, 0, 0>>
    /\ cfg \in SatCfgs
    /\ arg \in SatTemps
    /\ ret = NoRet
    /\ sat = [iter |-> 0, P |-> 0, calls |-> 0, cubics |-> 0, guessed |-> FALSE, pass |-> NoPass]

\* if T >= cfg.Tc { return cfg.Pc, nil }; Tr, P := the initial guess.
SatEnter ==
    /\ op = "SaturationPressure"
    /\ at = "call"
    /\ \E e \in {SaturationEntry(cfg, arg)} :
          /\ sat' = [sat EXCEPT !.P = e.P, !.guessed = e.guessed]
          /\ IF e.returns
             THEN at' = "done" /\ ret' = [P |-> e.P, err |-> e.err]
             ELSE at' = "loop" /\ ret' = ret
    /\ UNCHANGED <<op, coef, cfg, arg>>

\* One pass through the body of for range 100.
SatIterate ==
    /\ op = "SaturationPressure"
    /\ at = "loop"
    /\ sat.iter < MaxIterations
    /\ \E pass \in {LoopPass(cfg, arg, sat.P)} :
          /\ sat' = [sat EXCEPT !.iter = NextIter(sat.iter, pass.kind),
                                !.P = pass.P,
                                !.calls = @ + 1,
                                !.cubics = @ + pass.calls.SolveCubic,
                                !.pass = pass]
          /\ IF pass.returns
             THEN at' = "done" /\ ret' = [P |-> pass.P, err |-> pass.err]
             ELSE at' = "loop" /\ ret' = ret
    /\ cfg' = CfgAfterPass(cfg, arg, sat.P)
    /\ UNCHANGED <<op, coef, arg>>

\* return 0, errors.New("saturation pressure did not converge").
SatExhaust ==
    /\ op = "SaturationPressure"
    /\ at = "loop"
    /\ sat.iter >= MaxIterations
    /\ at' = "done"
    /\ ret' = [P |-> 0, err |-> NoConvergenceError]
    /\ UNCHANGED <<op, coef, cfg, arg, sat>>

NextSat == SatEnter \/ SatIterate \/ SatExhaust

SpecSat == InitSat /\ [][NextSat]_vars

SaturationDone == op = "SaturationPressure" /\ at = "done"

\* C5: SaturationPressure rejects every input in which T, cfg.P, cfg.Tc,
\* cfg.Pc or cfg.R is not positive with the validation error of a violated
\* field, before SolveCubic is called; no such input yields a pressure.
C5_SaturationValidates ==
    (SaturationDone /\ ViolatedKinds(cfg, arg) # {}) =>
        /\ ret.err \in ViolatedKinds(cfg, arg)
        /\ sat.cubics = 0

\* C8: for T >= cfg.Tc SaturationPressure returns exactly cfg.Pc and a nil
\* error, with no initial guess computed and SolveForVolume not called.
C8_AboveCriticalReturnsPc ==
    (SaturationDone /\ arg >= cfg.Tc) =>
        /\ ret.P = cfg.Pc
        /\ ret.err = NoError
        /\ ~sat.guessed
        /\ sat.calls = 0

C8_Witness ==
    /\ SaturationDone
    /\ arg >= cfg.Tc
    /\ cfg.Pc # cfg.P
    /\ ret.P = cfg.Pc /\ ret.err = NoError

\* The convergence test made afresh at the pressure P: SolveForVolume at
\* (T, P) has at least 3 clean real roots, Zl > B and Zv > B, and
\* |ln(phi_l) - ln(phi_v)| < 1e-8.
PassesTestAt(cf, T, P) ==
    Let(SolveForVolume([cf EXCEPT !.P = P, !.T = T]), [volRes \in VolumeResults |->
        /\ volRes.err = NoError
        /\ Let(Clean(volRes), [roots \in Seq(Int) |->
              /\ Len(roots) >= 3
              /\ Let(Div[Mul[volRes.B, P], Mul[cf.R, T]], [Bdim \in Int |->
                 Let(Div[Mul[P, roots[1]], Mul[cf.R, T]], [Zl \in Int |->
                 Let(Div[Mul[P, roots[Len(roots)]], Mul[cf.R, T]], [Zv \in Int |->
                 Let(Div[Mul[volRes.A, P], Mul[Mul[cf.R, T], Mul[cf.R, T]]], [Adim \in Int |->
                     /\ Zl > Bdim
                     /\ Zv > Bdim
                     /\ Abs[LogFugacity[cf.Type, Zl, Adim, Bdim]
                                - LogFugacity[cf.Type, Zv, Adim, Bdim]]
                            < Threshold[1, 100000000]])])])])])])

\* C9: a pressure returned with a nil error for T < cfg.Tc is the trial
\* pressure of the pass in which the test passed, not a later update of it:
\* at exactly that pressure SolveForVolume gave at least 3 clean real roots,
\* Zl > B and Zv > B held and |ln(phi_l) - ln(phi_v)| < 1e-8.
C9_ReturnsPassingTrial ==
    (SaturationDone /\ arg < cfg.Tc /\ ret.err = NoError) =>
        /\ sat.pass.kind = "converged"
        /\ ret.P = sat.pass.trial
        /\ PassesTestAt(cfg, arg, ret.P)

C9_Witness ==
    /\ SaturationDone
    /\ arg < cfg.Tc
    /\ ret.err = NoError
    /\ sat.pass.kind = "converged"
    /\ Len(sat.pass.roots) >= 3

\* C10: SaturationPressure makes at most 100 passes through its loop and at
\* most 100 calls of SolveForVolume; a pass that ends in a perturbation
\* (x0.9, x1.1, x0.95) takes one from the same budget as a fugacity update;
\* a call in which no pass returns fails with the did-not-converge error.
C10_BoundedIterations ==
    (op = "SaturationPressure") =>
        /\ sat.iter <= 100
        /\ sat.calls <= 100
        /\ sat.calls = sat.iter
        /\ (at = "done" /\ sat.guessed /\ ~sat.pass.returns) =>
              (sat.iter = 100 /\ ret.P = 0 /\ ret.err = NoConvergenceError)
        /\ (at = "done" /\ ret.err = NoConvergenceError) => sat.iter = 100

C10_Witness ==
    /\ SaturationDone
    /\ ret.err = NoConvergenceError
    /\ sat.calls = 100
    /\ sat.pass.kind \in {"decrease", "increase", "perturb"}

---------------------------------------------------------------------------
(* The calls of LogFugacity: every equation of state, Z in halves up to    *)
(* MaxZ/2, and A and B from the sizes the saturation loop produces.        *)

MaxZ == 6

FugZs == {Lit[k, 2] : k \in 1 .. MaxZ}
FugAs == {Lit[1, 2], Scale, 2 * Scale}
FugBs == {Lit[1, 16], Lit[1, 8], Lit[1, 4]}

InitFug ==
    /\ op = "LogFugacity"
    /\ at = "call"
    /\ coef = <<0, 0, 0, 0>>
    /\ cfg \in [Type : EOSTypes, T : {Scale}, P : {Scale}, Tc : {Scale},
                Pc : {Scale}, Acentric : {0}, R : {Scale}]
    /\ arg \in [Z : FugZs, A : FugAs, B : FugBs]
    /\ ret = NoRet
    /\ sat = NoSat

CallLogFugacity ==
    /\ op = "LogFugacity"
    /\ at = "call"
    /\ ret' = [lnPhi |-> LogFugacity[cfg.Type, arg.Z, arg.A, arg.B], err |-> NoError]
    /\ at' = "done"
    /\ UNCHANGED <<op, coef, cfg, arg, sat>>

NextFug == CallLogFugacity

SpecFug == InitFug /\ [][NextFug]_vars

LogFugacityDone == op = "LogFugacity" /\ at = "done"

\* C12: LogFugacity adds -A/Z to term1 exactly when |epsilon - sigma| is
\* below 1e-9 and the log-ratio term otherwise; of the four equations of
\* state only van der Waals takes -A/Z.
C12_FugacityBranch ==
    LogFugacityDone =>
        /\ Degenerate(cfg.Type) <=> cfg.Type = "vdW"
        /\ Abs[Params[cfg.Type].Epsilon - Params[cfg.Type].Sigma] < Threshold[1, 1000000000]
              <=> Params[cfg.Type].Epsilon = Params[cfg.Type].Sigma
        /\ IF cfg.Type = "vdW"
           THEN ret.lnPhi = FugacityTerm1[arg.Z, arg.B] + DegenerateTerm[arg.Z, arg.A]
           ELSE ret.lnPhi = FugacityTerm1[arg.Z, arg.B]
                              + LogRatioTerm[cfg.Type, arg.Z, arg.A, arg.B]

C12_Witness ==
    /\ LogFugacityDone
    /\ cfg.Type = "rk"
    /\ ret.lnPhi = FugacityTerm1[arg.Z, arg.B] + LogRatioTerm["rk", arg.Z, arg.A, arg.B]
    /\ ret.lnPhi # FugacityTerm1[arg.Z, arg.B] + DegenerateTerm[arg.Z, arg.A]

---------------------------------------------------------------------------
(* The calls of VolumeResult.Clean: every triple of roots whose real parts *)
(* are integers from -1 to MaxRoot and whose imaginary parts are zero, one *)
(* unit either side of zero, or one.                                       *)

MaxRoot == 2

RootReals == {k * Scale : k \in -1 .. MaxRoot}
RootImags == {-1, 0, 1, Scale}
RootValues == RootReals \X RootImags

InitClean ==
    /\ op = "Clean"
    /\ at = "call"
    /\ coef = <<0, 0, 0, 0>>
    /\ cfg = NoCfg
    /\ arg \in [A : {Scale}, B : {Lit[1, 8]},
                Volumes : RootValues \X RootValues \X RootValues]
    /\ ret = NoRet
    /\ sat = NoSat

\* ret.res is the slice returned, ret.Volumes the receiver's roots afterwards.
CallClean ==
    /\ op = "Clean"
    /\ at = "call"
    /\ ret' = [res |-> Clean(arg), Volumes |-> VolumesAfterClean(arg), err |-> NoError]
    /\ at' = "done"
    /\ UNCHANGED <<op, coef, cfg, arg, sat>>

NextClean == CallClean

SpecClean == InitClean /\ [][NextClean]_vars

CleanDone == op = "Clean" /\ at = "done"

\* How often x occurs in the slice s.
Occurrences(s, x) == Cardinality({i \in 1 .. Len(s) : s[i] = x})

\* How often x is the real part of a root of Volumes with |imag| < 1e-9.
RealOccurrences(Volumes, x) ==
    Cardinality({i \in 1 .. 3 :
        Volumes[i][1] = x /\ Abs[Volumes[i][2]] < Threshold[1, 1000000000]})

\* C13: Clean returns the real parts of exactly the roots with |imag| < 1e-9,
\* each as often as it occurs (0 to 3 values), in ascending order, so that
\* the first is the least and the last the greatest; the receiver's Volumes
\* are as before the call.
C13_CleanSortedReals ==
    CleanDone =>
        /\ Len(ret.res) \in 0 .. 3
        /\ \A x \in RootReals \cup {ret.res[i] : i \in 1 .. Len(ret.res)} :
              Occurrences(ret.res, x) = RealOccurrences(arg.Volumes, x)
        /\ \A i \in 1 .. Len(ret.res) - 1 : ret.res[i] <= ret.res[i + 1]
        /\ \A i \in 1 .. Len(ret.res) :
              ret.res[1] <= ret.res[i] /\ ret.res[i] <= ret.res[Len(ret.res)]
        /\ ret.Volumes = arg.Volumes

C13_Witness ==
    /\ CleanDone
    /\ arg.Volumes = <<<<2 * Scale, 0>>, <<0, 1>>, <<-Scale, 0>>>>
    /\ ret.res = <<-Scale, 2 * Scale>>

---------------------------------------------------------------------------
(* The calls of Params and Alpha: for each equation of state up to         *)
(* MaxParamsCalls calls of Params, the caller overwriting one field of the *)
(* object it holds between two calls, and Alpha at every tr in quarters up *)
(* to MaxTr/4.                                                             *)

MaxParamsCalls == 3
MaxTr == 8

ParamsFields == {"Sigma", "Epsilon", "Omega", "Psi"}
WrittenValues == {-Scale, 7, 3 * Scale}
AlphaTrs == {Lit[k, 4] : k \in 1 .. MaxTr}
AlphaAcentrics == {-Scale, 0, Lit[1, 4], Scale}

\* No *Params held by the caller yet.
NoParams == [Sigma |-> 0, Epsilon |-> 0, Omega |-> 0, Psi |-> 0, held |-> FALSE]

\* Params() if it handed out one object per type: the object the caller holds.
ParamsShared(type, held) ==
    IF held.held
    THEN [Sigma |-> held.Sigma, Epsilon |-> held.Epsilon, Omega |-> held.Omega,
          Psi |-> held.Psi]
    ELSE Params[type]

\* Params() when the caller holds (and may have written to) an object of an
\* earlier call: return &Params{...} builds a new object from the literals.
ParamsCall(type, held) == Params[type]

InitParams ==
    /\ op \in {"Params", "Alpha"}
    /\ at = "call"
    /\ coef = <<0, 0, 0, 0>>
    /\ cfg \in [Type : EOSTypes, T : {Scale}, P : {Scale}, Tc : {Scale},
                Pc : {Scale}, Acentric : {0}, R : {Scale}]
    /\ arg \in IF op = "Alpha" THEN [tr : AlphaTrs, w : AlphaAcentrics]
                               ELSE {[tr |-> Scale, w |-> 0]}
    /\ ret = NoRet
    /\ sat = [calls |-> 0, held |-> NoParams]

CallParams ==
    /\ op = "Params"
    /\ at \in {"call", "written"}
    /\ sat.calls < MaxParamsCalls
    /\ ret' = [Params |-> ParamsCall(cfg.Type, sat.held), err |-> NoError]
    /\ sat' = [sat EXCEPT !.calls = sat.calls + 1]
    /\ at' = "done"
    /\ UNCHANGED <<op, coef, cfg, arg>>

\* The caller assigns to a field of the object the last call returned.
WriteReturnedParams ==
    /\ op = "Params"
    /\ at = "done"
    /\ \E field \in ParamsFields, value \in WrittenValues :
          sat' = [sat EXCEPT !.held =
                     [[Sigma |-> ret.Params.Sigma, Epsilon |-> ret.Params.Epsilon,
                       Omega |-> ret.Params.Omega, Psi |-> ret.Params.Psi,
                       held |-> TRUE] EXCEPT ![field] = value]]
    /\ at' = "written"
    /\ UNCHANGED <<op, coef, cfg, arg, ret>>

CallAlpha ==
    /\ op = "Alpha"
    /\ at = "call"
    /\ ret' = [alpha |-> Alpha[cfg.Type, arg.tr, arg.w], err |-> NoError]
    /\ at' = "done"
    /\ UNCHANGED <<op, coef, cfg, arg, sat>>

NextParams == CallParams \/ WriteReturnedParams \/ CallAlpha

SpecParams == InitParams /\ [][NextParams]_vars

ParamsDone == op = "Params" /\ at = "done"
AlphaDone == op = "Alpha" /\ at = "done"

\* The m(w) of the srk and pr rows of the table.
TableM(type, w) ==
    IF type = "srk"
    THEN Lit[480, 1000] + Mul[Lit[1574, 1000], w] - Mul[Mul[Lit[716, 1000], w], w]
    ELSE Lit[37464, 100000] + Mul[Lit[154226, 100000], w]
             - Mul[Mul[Lit[26992, 100000], w], w]

\* C14: every Params() call returns the table's row of its model (vdW: 0, 0,
\* 1/8, 27/64; rk and srk: 1, 0, 0.08664, 0.42728; pr: 1 + sqrt 2,
\* 1 - sqrt 2, 0.07780, 0.45724), whatever the caller wrote to an object
\* returned earlier, and Alpha is 1 for vdW, 1/sqrt(tr) for rk and
\* (1 + m(1 - sqrt(tr)))^2 for srk and pr with their m(w).
C14_ParamsTable ==
    /\ ParamsDone =>
          /\ cfg.Type = "vdW" =>
                ret.Params = [Sigma |-> 0, Epsilon |-> 0, Omega |-> Scale \div 8,
                              Psi |-> (27 * Scale) \div 64]
          /\ cfg.Type \in {"rk", "srk"} =>
                ret.Params = [Sigma |-> Scale, Epsilon |-> 0,
                              Omega |-> Lit[8664, 100000], Psi |-> Lit[42728, 100000]]
          /\ cfg.Type = "pr" =>
                ret.Params = [Sigma |-> Scale + Sqrt[2 * Scale],
                              Epsilon |-> Scale - Sqrt[2 * Scale],
                              Omega |-> Lit[7780, 100000], Psi |-> Lit[45724, 100000]]
    /\ AlphaDone =>
          /\ cfg.Type = "vdW" => ret.alpha = Scale
          /\ cfg.Type = "rk" => ret.alpha = Div[Scale, Sqrt[arg.tr]]
          /\ cfg.Type \in {"srk", "pr"} =>
                ret.alpha =
                    Mul[Scale + Mul[TableM(cfg.Type, arg.w), Scale - Sqrt[arg.tr]],
                        Scale + Mul[TableM(cfg.Type, arg.w), Scale - Sqrt[arg.tr]]]

C14_Witness ==
    /\ ParamsDone
    /\ cfg.Type = "pr"
    /\ sat.calls = 2
    /\ sat.held.held
    /\ sat.held.Sigma = 3 * Scale
    /\ ret.Params.Sigma = Scale + Sqrt[2 * Scale]

---------------------------------------------------------------------------
(* The cubic equations of state as a whole: any one call of SolveCubic or  *)
(* of a function of package cubic.                                        *)

Init == InitCubic \/ InitEOS \/ InitSat \/ InitFug \/ InitClean \/ InitParams

Next == NextCubic \/ NextEOS \/ NextSat \/ NextFug \/ NextClean \/ NextParams

Spec == Init /\ [][Next]_vars

\* C11: no call writes to the caller's configuration: no step of
\* SolveForVolume, Pressure or SaturationPressure (LogFugacity within it)
\* changes a field of *cfg, whether the call succeeds or fails;
\* SaturationPressure varies T and P on its copy only.
C11_ConfigNeverWritten == [][cfg' = cfg]_vars

C11_Witness ==
    /\ SaturationDone
    /\ sat.calls > 1
    /\ sat.pass.trial # cfg.P
    /\ arg # cfg.T

---------------------------------------------------------------------------
(* package leekesler: findIndex, interpolate, table.At and correlation.At  *)

\* arr[i] of a Go slice, whose first index is 0.
Elem(arr, i) == arr[i + 1]

\* sort.Search(n, f) with f(h) = arr[h] >= val, between i and j: the binary
\* search of sort.SearchFloat64s.
Search[arr \in Seq(Int), val \in Int, i \in Int, j \in Int] ==
    IF i >= j THEN i
    ELSE Let((i + j) \div 2, [h \in Int |->
             IF ~(Elem(arr, h) >= val)
             THEN Search[arr, val, h + 1, j]
             ELSE Search[arr, val, i, h]])

\* sort.SearchFloat64s(arr, val)
SearchFloat64s[arr \in Seq(Int), val \in Int] == Search[arr, val, 0, Len(arr)]

\* findIndex without its two clamps at the ends.
findIndexUnclamped(arr, val) ==
    IF Len(arr) < 2 THEN -1
    ELSE SearchFloat64s[arr, val] - 1

\* findIndex(arr, val)
findIndex(arr, val) ==
    IF Len(arr) < 2 THEN -1
    ELSE Let(SearchFloat64s[arr, val], [i \in Int |->
             IF i = Len(arr) THEN Len(arr) - 2
             ELSE IF i = 0 THEN 0
             ELSE i - 1])

---------------------------------------------------------------------------
(* The calls of findIndex: every ascending slice of up to MaxLen values    *)
(* from 1 to MaxVal, equal neighbours included, and val in halves from 0   *)
(* to MaxVal + 1.                                                          *)

MaxLen == 4
MaxVal == 4

GridValues == {k * Scale : k \in 1 .. MaxVal}

Ascending(arr) == \A i \in 1 .. Len(arr) - 1 : arr[i] <= arr[i + 1]

SlicesOfLen(n) == {arr \in [1 .. n -> GridValues] : Ascending(arr)}

AscendingSlices == UNION {SlicesOfLen(n) : n \in 0 .. MaxLen}

SearchValues == {Lit[k, 2] : k \in 0 .. 2 * MaxVal + 2}

InitFind ==
    /\ op = "findIndex"
    /\ at = "call"
    /\ coef = <<0, 0, 0, 0>>
    /\ cfg = NoCfg
    /\ arg \in [arr : AscendingSlices, val : SearchValues]
    /\ ret = NoRet
    /\ sat = NoSat

CallFindIndex ==
    /\ op = "findIndex"
    /\ at = "call"
    /\ ret' = [index |-> findIndex(arg.arr, arg.val), err |-> NoError]
    /\ at' = "done"
    /\ UNCHANGED <<op, coef, cfg, arg, sat>>

NextFind == CallFindIndex

SpecFind == InitFind /\ [][NextFind]_vars

FindDone == op = "findIndex" /\ at = "done"

\* C17: on an ascending slice findIndex returns -1 when the slice has fewer
\* than two values and otherwise an index i with 0 <= i <= len - 2: 0 when
\* val <= arr[0], len - 2 when val > arr[len-1], and otherwise the one i
\* with arr[i] < val <= arr[i+1].
C17_FindIndexBrackets ==
    FindDone =>
        LET arr == arg.arr
            val == arg.val
            n   == Len(arg.arr)
            i   == ret.index
        IN  IF n < 2 THEN i = -1
            ELSE /\ 0 <= i /\ i <= n - 2
                 /\ val <= Elem(arr, 0) => i = 0
                 /\ val > Elem(arr, n - 1) => i = n - 2
                 /\ Elem(arr, 0) < val /\ val <= Elem(arr, n - 1) =>
                       /\ Elem(arr, i) < val /\ val <= Elem(arr, i + 1)
                       /\ \A k \in 0 .. n - 2 :
                             Elem(arr, k) < val /\ val <= Elem(arr, k + 1) => k = i

C17_Witness ==
    /\ FindDone
    /\ arg.arr = <<Scale, 2 * Scale, 2 * Scale, 4 * Scale>>
    /\ arg.val = 2 * Scale
    /\ ret.index = 0

---------------------------------------------------------------------------
(* interpolate, table.At and correlation.At.  A table is its two axes Pr   *)
(* and Tr and Values[TrIndex][PrIndex].                                    *)

PrRangeError == "reduced pressure out of range"
TrRangeError == "reduced temperature out of range"

\* The run-time panic of an index outside a slice.
IndexPanic == "panic: index out of range"

\* i and j where interpolate returns before it computes them.
NotIndexed == -2

Lookups == [value : Int, err : STRING, i : Int, j : Int]

\* ((b-v)/(b-a))*Ma + ((v-a)/(b-a))*Mb
Lerp[a \in Int, b \in Int, v \in Int, Ma \in Int, Mb \in Int] ==
    Mul[Div[b - v, b - a], Ma] + Mul[Div[v - a, b - a], Mb]

\* interpolate past the two checks and findIndex: the four corners and M.
Bilinear(pr, tr, table, i, j) ==
    IF i < 0 \/ i + 1 > Len(table.Pr) - 1 \/ j < 0 \/ j + 1 > Len(table.Tr) - 1
    THEN [value |-> 0, err |-> IndexPanic, i |-> i, j |-> j]
    ELSE LET x1  == Elem(table.Pr, i)
             x2  == Elem(table.Pr, i + 1)
             y1  == Elem(table.Tr, j)
             y2  == Elem(table.Tr, j + 1)
             M11 == Elem(Elem(table.Values, j), i)
             M12 == Elem(Elem(table.Values, j), i + 1)
             M21 == Elem(Elem(table.Values, j + 1), i)
             M22 == Elem(Elem(table.Values, j + 1), i + 1)
         IN  [value |-> Lerp[y1, y2, tr, Lerp[x1, x2, pr, M11, M12],
                                         Lerp[x1, x2, pr, M21, M22]],
              err |-> NoError, i |-> i, j |-> j]

\* interpolate with the check of tr made before the check of pr.
interpolateTrFirst(pr, tr, table) ==
    IF tr < Elem(table.Tr, 0) \/ tr > Elem(table.Tr, Len(table.Tr) - 1)
    THEN [value |-> 0, err |-> TrRangeError, i |-> NotIndexed, j |-> NotIndexed]
    ELSE IF pr < Elem(table.Pr, 0) \/ pr > Elem(table.Pr, Len(table.Pr) - 1)
    THEN [value |-> 0, err |-> PrRangeError, i |-> NotIndexed, j |-> NotIndexed]
    ELSE Bilinear(pr, tr, table, findIndex(table.Pr, pr), findIndex(table.Tr, tr))

\* interpolate(pr, tr, table)
interpolate(pr, tr, table) ==
    IF pr < Elem(table.Pr, 0) \/ pr > Elem(table.Pr, Len(table.Pr) - 1)
    THEN [value |-> 0, err |-> PrRangeError, i |-> NotIndexed, j |-> NotIndexed]
    ELSE IF tr < Elem(table.Tr, 0) \/ tr > Elem(table.Tr, Len(table.Tr) - 1)
    THEN [value |-> 0, err |-> TrRangeError, i |-> NotIndexed, j |-> NotIndexed]
    ELSE Bilinear(pr, tr, table, findIndex(table.Pr, pr), findIndex(table.Tr, tr))

\* t.At(pr, tr)
TableAt(t, pr, tr) == interpolate(pr, tr, t)

\* c.At(pr, tr): <<v0, v1, err>>
CorrelationAt(c, pr, tr) ==
    Let(TableAt(c.base, pr, tr), [r0 \in Lookups |->
        IF r0.err # NoError THEN [v0 |-> 0, v1 |-> 0, err |-> r0.err]
        ELSE Let(TableAt(c.depart, pr, tr), [r1 \in Lookups |->
                 IF r1.err # NoError THEN [v0 |-> 0, v1 |-> 0, err |-> r1.err]
                 ELSE [v0 |-> r0.value, v1 |-> r1.value, err |-> NoError]])])

---------------------------------------------------------------------------
(* The calls of table.At and correlation.At: tables whose axes are the     *)
(* strictly ascending runs of one to MaxAxis values out of 1 .. MaxAxis,   *)
(* and pr and tr in halves from 1/2 to MaxAxis + 1/2.  A correlation's     *)
(* departure table has one axis of its base table and any other axis.      *)

MaxAxis == 3

AxisValues == {k * Scale : k \in 1 .. MaxAxis}

StrictlyAscending(arr) == \A i \in 1 .. Len(arr) - 1 : arr[i] < arr[i + 1]

Axes ==
    UNION {{arr \in [1 .. n -> AxisValues] : StrictlyAscending(arr)} : n \in 1 .. MaxAxis}

\* The table over two axes: Values[j][i] = seed + Pr[i]*Tr[j].
TableOver(PrAxis, TrAxis, seed) ==
    [Pr |-> PrAxis, Tr |-> TrAxis,
     Values |-> [j \in 1 .. Len(TrAxis) |->
                    [i \in 1 .. Len(PrAxis) |-> seed + Mul[PrAxis[i], TrAxis[j]]]]]

BaseTables == {TableOver(p, t, 0) : p \in Axes, t \in Axes}

DepartTables(base) ==
    {TableOver(p, base.Tr, Scale) : p \in Axes}
        \cup {TableOver(base.Pr, t, Scale) : t \in Axes}

Queries == {Lit[2 * k + 1, 2] : k \in 0 .. MaxAxis} \cup AxisValues

CorrelationQueries == {Lit[1, 2], Lit[3, 2], 2 * Scale, Lit[2 * MaxAxis + 1, 2]}

InitTable ==
    /\ op \in {"table.At", "correlation.At"}
    /\ at = "call"
    /\ coef = <<0, 0, 0, 0>>
    /\ cfg = NoCfg
    /\ \E base \in BaseTables :
          IF op = "table.At"
          THEN arg \in [base : {base}, depart : {base}, pr : Queries, tr : Queries]
          ELSE arg \in [base : {base}, depart : DepartTables(base),
                        pr : CorrelationQueries, tr : CorrelationQueries]
    /\ ret = NoRet
    /\ sat = NoSat

CallTableAt ==
    /\ op = "table.At"
    /\ at = "call"
    /\ ret' = TableAt(arg.base, arg.pr, arg.tr)
    /\ at' = "done"
    /\ UNCHANGED <<op, coef, cfg, arg, sat>>

CallCorrelationAt ==
    /\ op = "correlation.At"
    /\ at = "call"
    /\ ret' = CorrelationAt([base |-> arg.base, depart |-> arg.depart], arg.pr, arg.tr)
    /\ at' = "done"
    /\ UNCHANGED <<op, coef, cfg, arg, sat>>

NextTable == CallTableAt \/ CallCorrelationAt

SpecTable == InitTable /\ [][NextTable]_vars

TableAtDone == op = "table.At" /\ at = "done"
CorrelationAtDone == op = "correlation.At" /\ at = "done"

\* v is outside the closed range of the axis.
OutOfRange(axis, v) == v < axis[1] \/ v > axis[Len(axis)]

\* The error a table returns at (pr, tr), NoError if it returns none.
ReportedError(t, pr, tr) ==
    IF OutOfRange(t.Pr, pr) THEN PrRangeError
    ELSE IF OutOfRange(t.Tr, tr) THEN TrRangeError
    ELSE NoError

\* C18: table.At returns an error exactly when pr is outside
\* [Pr[0], Pr[last]] or tr outside [Tr[0], Tr[last]], the pressure error
\* where both are; in range, on a table of at least two values on each
\* axis, i, i+1, j and j+1 are indices of the axes; correlation.At returns
\* (0, 0, err) with the error of the first of base and departure table
\* that reports one, and both values otherwise.
C18_TableRangeErrors ==
    /\ TableAtDone =>
          /\ ret.err \in {PrRangeError, TrRangeError}
                <=> OutOfRange(arg.base.Pr, arg.pr) \/ OutOfRange(arg.base.Tr, arg.tr)
          /\ ret.err = ReportedError(arg.base, arg.pr, arg.tr) \/ ret.err = IndexPanic
          /\ ret.err \in {PrRangeError, TrRangeError} => ret.value = 0
          /\ /\ ~OutOfRange(arg.base.Pr, arg.pr)
             /\ ~OutOfRange(arg.base.Tr, arg.tr)
             /\ Len(arg.base.Pr) >= 2
             /\ Len(arg.base.Tr) >= 2
             => /\ ret.err = NoError
                /\ 0 <= ret.i /\ ret.i + 1 <= Len(arg.base.Pr) - 1
                /\ 0 <= ret.j /\ ret.j + 1 <= Len(arg.base.Tr) - 1
    /\ CorrelationAtDone /\ ret.err # IndexPanic =>
          LET e0 == ReportedError(arg.base, arg.pr, arg.tr)
              e1 == ReportedError(arg.depart, arg.pr, arg.tr)
          IN  /\ e0 # NoError => ret = [v0 |-> 0, v1 |-> 0, err |-> e0]
              /\ e0 = NoError /\ e1 # NoError => ret = [v0 |-> 0, v1 |-> 0, err |-> e1]
              /\ e0 = NoError /\ e1 = NoError =>
                    /\ ret.err = NoError
                    /\ ret.v0 = TableAt(arg.base, arg.pr, arg.tr).value
                    /\ ret.v1 = TableAt(arg.depart, arg.pr, arg.tr).value

C18_Witness ==
    /\ CorrelationAtDone
    /\ Len(arg.base.Pr) >= 2
    /\ Len(arg.base.Tr) >= 2
    /\ ReportedError(arg.base, arg.pr, arg.tr) = NoError
    /\ ReportedError(arg.depart, arg.pr, arg.tr) = TrRangeError
    /\ ret = [v0 |-> 0, v1 |-> 0, err |-> TrRangeError]

---------------------------------------------------------------------------
(* package zfactor: the sentinel errors of the virial and Abbott functions *)

ErrTemp                == "absolute temperature (T) cannot be less than or equal to 0"
ErrPressure            == "pressure (P) cannot be less than 0"
ErrUniversalConst      == "universal gas constant (R) value cannot be less than or equal to 0"
ErrVirialCoeff         == "virial coefficient (B or C) cannot be 0"
ErrHighPressureTwoTerm ==
    "pressure exceeds the validity limit (15 bar) for the two-term virial equation"
ErrInvalidTr           == "reduced temperature (Tr) must be greater than 0"

---------------------------------------------------------------------------
(* package virial *)

\* A (0, err) return.
Failed(e) == [value |-> 0, err |-> e]

\* SolveForVolumeTwoTerm(T, P, R, B)
SolveForVolumeTwoTerm(T, P, R, B) ==
    IF P <= 0 THEN Failed(ErrPressure)
    ELSE IF P > 15 * Scale THEN Failed(ErrHighPressureTwoTerm)
    ELSE IF T <= 0 THEN Failed(ErrTemp)
    ELSE IF R <= 0 THEN Failed(ErrUniversalConst)
    ELSE IF B = 0 THEN Failed(ErrVirialCoeff)
    ELSE [value |-> Div[Mul[R, T], P] + B, err |-> NoError]

\* CompressibilityTwoTerm with T checked before the limit of 15 on P.
CompressibilityTwoTermTempFirst(T, P, R, B) ==
    IF P <= 0 THEN Failed(ErrPressure)
    ELSE IF T <= 0 THEN Failed(ErrTemp)
    ELSE IF P > 15 * Scale THEN Failed(ErrHighPressureTwoTerm)
    ELSE IF R <= 0 THEN Failed(ErrUniversalConst)
    ELSE IF B = 0 THEN Failed(ErrVirialCoeff)
    ELSE [value |-> Scale + Div[Mul[B, P], Mul[R, T]], err |-> NoError]

\* CompressibilityTwoTerm(T, P, R, B)
CompressibilityTwoTerm(T, P, R, B) ==
    IF P <= 0 THEN Failed(ErrPressure)
    ELSE IF P > 15 * Scale THEN Failed(ErrHighPressureTwoTerm)
    ELSE IF T <= 0 THEN Failed(ErrTemp)
    ELSE IF R <= 0 THEN Failed(ErrUniversalConst)
    ELSE IF B = 0 THEN Failed(ErrVirialCoeff)
    ELSE [value |-> Scale + Div[Mul[B, P], Mul[R, T]], err |-> NoError]

\* a := P / (R * T), the leading coefficient of the cubic in V.
ThreeTermLeading(T, P, R) == Div[P, Mul[R, T]]

\* SolveForVolumeThreeTerm(T, P, R, B, C): the roots, the error and the
\* leading coefficient handed to SolveCubic (0 where it is not reached).
SolveForVolumeThreeTerm(T, P, R, B, C) ==
    IF P <= 0 THEN [roots |-> ZeroRoots, err |-> ErrPressure, a |-> 0, solved |-> FALSE]
    ELSE IF T <= 0 THEN [roots |-> ZeroRoots, err |-> ErrTemp, a |-> 0, solved |-> FALSE]
    ELSE IF R <= 0
    THEN [roots |-> ZeroRoots, err |-> ErrUniversalConst, a |-> 0, solved |-> FALSE]
    ELSE IF B = 0 \/ C = 0
    THEN [roots |-> ZeroRoots, err |-> ErrVirialCoeff, a |-> 0, solved |-> FALSE]
    ELSE Let(ThreeTermLeading(T, P, R), [a \in Int |->
         Let(SolveCubic(a, -Scale, -B, -C), [solution \in CubicResults |->
             [roots |-> solution.roots, err |-> solution.err, a |-> a,
              solved |-> TRUE]])])

---------------------------------------------------------------------------
(* The calls of the virial functions: T and R from -1 to 2, P a half, the  *)
(* integers from -1 to MaxPressure and, for the two-term functions, the    *)
(* values about the limit of 15; B and C on both sides of zero.            *)

MaxPressure == 2

VirialFields == {-Scale, 0, Scale, 2 * Scale}
LowPressures == {k * Scale : k \in -1 .. MaxPressure} \cup {Lit[1, 2]}
VirialPressures == LowPressures \cup {15 * Scale, 15 * Scale + 1, 16 * Scale}
VirialBs == {-Scale, -Lit[1, 4], 0, Lit[1, 2]}
VirialCs == {-Lit[1, 4], 0, Lit[1, 8]}

Pending == [value |-> 0, err |-> "pending"]

InitVirial ==
    /\ op \in {"TwoTerm", "ThreeTerm"}
    /\ at = "call"
    /\ coef = <<0, 0, 0, 0>>
    /\ cfg = NoCfg
    /\ arg \in [T : VirialFields,
                P : IF op = "TwoTerm" THEN VirialPressures ELSE LowPressures,
                R : VirialFields, B : VirialBs,
                C : IF op = "TwoTerm" THEN {0} ELSE VirialCs]
    /\ ret = [V |-> Pending, Z |-> Pending, err |-> "pending"]
    /\ sat = NoSat

\* The two functions of the two-term equation are called on the same
\* arguments, in either order.
CallSolveForVolumeTwoTerm ==
    /\ op = "TwoTerm"
    /\ ret.V = Pending
    /\ \E r \in {SolveForVolumeTwoTerm(arg.T, arg.P, arg.R, arg.B)} :
          /\ ret' = [ret EXCEPT !.V = r, !.err = r.err]
          /\ at' = IF ret.Z = Pending THEN "between" ELSE "done"
    /\ UNCHANGED <<op, coef, cfg, arg, sat>>

CallCompressibilityTwoTerm ==
    /\ op = "TwoTerm"
    /\ ret.Z = Pending
    /\ \E r \in {CompressibilityTwoTerm(arg.T, arg.P, arg.R, arg.B)} :
          /\ ret' = [ret EXCEPT !.Z = r, !.err = r.err]
          /\ at' = IF ret.V = Pending THEN "between" ELSE "done"
    /\ UNCHANGED <<op, coef, cfg, arg, sat>>

CallSolveForVolumeThreeTerm ==
    /\ op = "ThreeTerm"
    /\ at = "call"
    /\ ret' = SolveForVolumeThreeTerm(arg.T, arg.P, arg.R, arg.B, arg.C)
    /\ at' = "done"
    /\ UNCHANGED <<op, coef, cfg, arg, sat>>

NextVirial ==
    CallSolveForVolumeTwoTerm \/ CallCompressibilityTwoTerm \/ CallSolveForVolumeThreeTerm

SpecVirial == InitVirial /\ [][NextVirial]_vars

TwoTermDone == op = "TwoTerm" /\ at = "done"
ThreeTermDone == op = "ThreeTerm" /\ at = "done"

\* The first failed check in the order P <= 0, P > 15, T <= 0, R <= 0, B == 0.
FirstTwoTermError(T, P, R, B) ==
    IF P <= 0 THEN ErrPressure
    ELSE IF P > 15 * Scale THEN ErrHighPressureTwoTerm
    ELSE IF T <= 0 THEN ErrTemp
    ELSE IF R <= 0 THEN ErrUniversalConst
    ELSE IF B = 0 THEN ErrVirialCoeff
    ELSE NoError

\* The rounding that P*V/(R*T) and 1 + B*P/(R*T) may differ by, in units.
VirialTol == Scale \div 1024

\* C19: SolveForVolumeTwoTerm and CompressibilityTwoTerm fail with the same
\* error, the first in the order P <= 0, P > 15, T <= 0, R <= 0, B == 0, or
\* both succeed, and then V = R*T/P + B and Z = P*V/(R*T);
\* SolveForVolumeThreeTerm past its validation hands SolveCubic the nonzero
\* leading coefficient P/(R*T) and does not return the not-cubic error.
C19_VirialValidation ==
    /\ TwoTermDone =>
          /\ ret.V.err = FirstTwoTermError(arg.T, arg.P, arg.R, arg.B)
          /\ ret.Z.err = ret.V.err
          /\ ret.V.err # NoError => ret.V.value = 0 /\ ret.Z.value = 0
          /\ ret.V.err = NoError =>
                /\ ret.V.value = Div[Mul[arg.R, arg.T], arg.P] + arg.B
                /\ Abs[ret.Z.value - Div[Mul[arg.P, ret.V.value], Mul[arg.R, arg.T]]]
                      <= VirialTol
    /\ ThreeTermDone =>
          /\ ret.err # NotCubicError
          /\ arg.P > 0 /\ arg.T > 0 /\ arg.R > 0 /\ arg.B # 0 /\ arg.C # 0
                => ret.solved /\ ret.a # 0 /\ ret.err = NoError
          /\ ~ret.solved =>
                ret.err \in {ErrPressure, ErrTemp, ErrUniversalConst, ErrVirialCoeff}

C19_Witness ==
    /\ TwoTermDone
    /\ arg.P = 16 * Scale
    /\ arg.T = 0
    /\ ret.V.err = ErrHighPressureTwoTerm
    /\ ret.Z.err = ErrHighPressureTwoTerm

---------------------------------------------------------------------------
(* package abbott: B0, B1, DB0 and DB1 *)

\* math.Pow(x, y) for x >= 0 and y > 0: exp(y * ln x), and 0 at x = 0.
Pow[x \in Int, y \in Int] == IF x = 0 THEN 0 ELSE Exp[Mul[y, Log[x]]]

\* (c0 - c/p, nil); a power too small for the format makes the quotient
\* leave its range (finite is FALSE, as for the +Inf of c / 0).
Correlated(c0, c, p) ==
    IF p = 0 THEN [value |-> 0, finite |-> FALSE, err |-> NoError]
    ELSE [value |-> c0 - Div[c, p], finite |-> TRUE, err |-> NoError]

\* return 0, zfactor.ErrInvalidTr
InvalidTr == [value |-> 0, finite |-> TRUE, err |-> ErrInvalidTr]

\* B0 with the check Tr < 0 in place of Tr <= 0.
B0NegativeOnly(Tr) ==
    IF Tr < 0 THEN InvalidTr
    ELSE Correlated(Lit[83, 1000], Lit[422, 1000], Pow[Tr, Lit[16, 10]])

\* B0(Tr) = 0.083 - 0.422/Tr^1.6
B0(Tr) ==
    IF Tr <= 0 THEN InvalidTr
    ELSE Correlated(Lit[83, 1000], Lit[422, 1000], Pow[Tr, Lit[16, 10]])

\* B1(Tr) = 0.139 - 0.172/Tr^4.2
B1(Tr) ==
    IF Tr <= 0 THEN InvalidTr
    ELSE Correlated(Lit[139, 1000], Lit[172, 1000], Pow[Tr, Lit[42, 10]])

\* DB0(Tr) = 0.675/Tr^2.6
DB0(Tr) ==
    IF Tr <= 0 THEN InvalidTr
    ELSE Correlated(0, -Lit[675, 1000], Pow[Tr, Lit[26, 10]])

\* DB1(Tr) = 0.722/Tr^5.2
DB1(Tr) ==
    IF Tr <= 0 THEN InvalidTr
    ELSE Correlated(0, -Lit[722, 1000], Pow[Tr, Lit[52, 10]])

---------------------------------------------------------------------------
(* The calls of the four functions: Tr in eighths from -1/2 to             *)
(* MaxEighths/8 and one unit either side of zero.                          *)

MaxEighths == 16

AbbottFunctions == {"B0", "B1", "DB0", "DB1"}

AbbottTrs == {Lit[k, 8] : k \in -4 .. MaxEighths} \cup {-1, 1}

InitAbbott ==
    /\ op \in AbbottFunctions
    /\ at = "call"
    /\ coef = <<0, 0, 0, 0>>
    /\ cfg = NoCfg
    /\ arg \in AbbottTrs
    /\ ret = NoRet
    /\ sat = NoSat

CallB0 ==
    /\ op = "B0"
    /\ at = "call"
    /\ ret' = B0(arg)
    /\ at' = "done"
    /\ UNCHANGED <<op, coef, cfg, arg, sat>>

CallB1 ==
    /\ op = "B1"
    /\ at = "call"
    /\ ret' = B1(arg)
    /\ at' = "done"
    /\ UNCHANGED <<op, coef, cfg, arg, sat>>

CallDB0 ==
    /\ op = "DB0"
    /\ at = "call"
    /\ ret' = DB0(arg)
    /\ at' = "done"
    /\ UNCHANGED <<op, coef, cfg, arg, sat>>

CallDB1 ==
    /\ op = "DB1"
    /\ at = "call"
    /\ ret' = DB1(arg)
    /\ at' = "done"
    /\ UNCHANGED <<op, coef, cfg, arg, sat>>

NextAbbott == CallB0 \/ CallB1 \/ CallDB0 \/ CallDB1

SpecAbbott == InitAbbott /\ [][NextAbbott]_vars

AbbottDone == op \in AbbottFunctions /\ at = "done"

\* C20: B0, B1, DB0 and DB1 return (0, ErrInvalidTr), the sentinel itself,
\* exactly when Tr <= 0, and a nil error for every Tr > 0.
C20_InvalidTrIffNonPositive ==
    AbbottDone =>
        /\ ret.err = ErrInvalidTr <=> arg <= 0
        /\ arg <= 0 => ret = [value |-> 0, finite |-> TRUE, err |-> ErrInvalidTr]
        /\ arg > 0 => ret.err = NoError

C20_Witness ==
    /\ AbbottDone
    /\ op = "B0"
    /\ arg = 0
    /\ ret.err = ErrInvalidTr
    /\ ret.value = 0

---------------------------------------------------------------------------
(* package liquids: interpolatePr and ReducedDensity.  An isotherm is its  *)
(* Tr and its Points, each point a Pr and a RhoR.                          *)

EmptyTableError  == "lydersen table is empty"
EmptyPointsError == "empty isotherm points"
PrAboveError     == "Pr is above the maximum defined Pr for this isotherm"
PrBelowError     == "Pr is below the minimum defined Pr for this isotherm"
TrAboveError     == "Tr is above the maximum defined Tr in Lydersen table"
TrBelowError     == "Tr is below the minimum defined Tr in Lydersen table"
LowerWrap        == "failed to interpolate at lower Tr: "
HigherWrap       == "failed to interpolate at higher Tr: "

Densities == [value : Int, err : STRING]

\* The Pr of the points and the Tr of the isotherms, as sort.Search sees them.
PrsOf(points) == [k \in 1 .. Len(points) |-> points[k].Pr]
TrsOf(isotherms) == [k \in 1 .. Len(isotherms) |-> isotherms[k].Tr]

\* low + frac*(high - low) with frac := (v - a) / (b - a)
Between[a \in Int, b \in Int, v \in Int, low \in Int, high \in Int] ==
    low + Mul[Div[v - a, b - a], high - low]

\* points[idx-1] and points[idx] of interpolatePr, and the interpolation.
PointsAt(points, Pr, idx) ==
    IF idx - 1 < 0 \/ idx > Len(points) - 1
    THEN [value |-> 0, err |-> IndexPanic]
    ELSE [value |-> Between[Elem(points, idx - 1).Pr, Elem(points, idx).Pr, Pr,
                            Elem(points, idx - 1).RhoR, Elem(points, idx).RhoR],
          err |-> NoError]

\* interpolatePr without the case of a Pr below the lowest point.
interpolatePrNoLowCase(points, Pr) ==
    IF Len(points) = 0 THEN Failed(EmptyPointsError)
    ELSE Let(Search[PrsOf(points), Pr, 0, Len(points)], [idx \in Int |->
             IF idx = Len(points) THEN Failed(PrAboveError)
             ELSE IF Elem(points, idx).Pr = Pr
             THEN [value |-> Elem(points, idx).RhoR, err |-> NoError]
             ELSE PointsAt(points, Pr, idx)])

\* interpolatePr(points, Pr)
interpolatePr(points, Pr) ==
    IF Len(points) = 0 THEN Failed(EmptyPointsError)
    ELSE Let(Search[PrsOf(points), Pr, 0, Len(points)], [idx \in Int |->
             IF idx = Len(points) THEN Failed(PrAboveError)
             ELSE IF Elem(points, idx).Pr = Pr
             THEN [value |-> Elem(points, idx).RhoR, err |-> NoError]
             ELSE IF idx = 0 THEN Failed(PrBelowError)
             ELSE PointsAt(points, Pr, idx)])

\* The isotherm of exactly the given Tr that sort.Search finds: its index,
\* or -1 for the nil pointer.
FindIsotherm(isotherms, tr) ==
    Let(Search[TrsOf(isotherms), tr, 0, Len(isotherms)], [idx \in Int |->
        IF idx < Len(isotherms) /\ Elem(isotherms, idx).Tr = tr THEN idx ELSE -1])

\* attemptFallback(originalErr)
attemptFallback(isotherms, Tr, Pr, originalErr) ==
    IF Tr > Lit[9, 10] /\ Tr < Scale
    THEN Let(FindIsotherm(isotherms, Lit[9, 10]), [iso09 \in Int |->
         Let(FindIsotherm(isotherms, Scale), [iso10 \in Int |->
             IF iso09 # -1 /\ iso10 # -1
             THEN Let(interpolatePr(Elem(isotherms, iso09).Points, Pr), [r09 \in Densities |->
                  Let(interpolatePr(Elem(isotherms, iso10).Points, Pr), [r10 \in Densities |->
                      IF r09.err = NoError /\ r10.err = NoError
                      THEN [value |-> Between[Lit[9, 10], Scale, Tr, r09.value, r10.value],
                            err |-> NoError]
                      ELSE Failed(originalErr)])])
             ELSE Failed(originalErr)])])
    ELSE Failed(originalErr)

\* A failed interpolatePr on one of the two isotherms about Tr: the
\* fallback's value, or the error wrapped.
FallbackOrWrapped(isotherms, Tr, Pr, err, wrap) ==
    Let(attemptFallback(isotherms, Tr, Pr, err), [fb \in Densities |->
        IF fb.err = NoError THEN fb ELSE Failed(wrap \o err)])

\* ReducedDensity between the isotherms idx-1 and idx.
BetweenIsotherms(isotherms, Tr, Pr, idx) ==
    Let(interpolatePr(Elem(isotherms, idx - 1).Points, Pr), [low \in Densities |->
        IF low.err # NoError
        THEN FallbackOrWrapped(isotherms, Tr, Pr, low.err, LowerWrap)
        ELSE Let(interpolatePr(Elem(isotherms, idx).Points, Pr), [high \in Densities |->
                 IF high.err # NoError
                 THEN FallbackOrWrapped(isotherms, Tr, Pr, high.err, HigherWrap)
                 ELSE [value |-> Between[Elem(isotherms, idx - 1).Tr, Elem(isotherms, idx).Tr,
                                         Tr, low.value, high.value],
                       err |-> NoError]])])

\* ReducedDensity(Tr, Pr) over lydersenData.Isotherms
ReducedDensity(isotherms, Tr, Pr) ==
    IF Len(isotherms) = 0 THEN Failed(EmptyTableError)
    ELSE Let(Search[TrsOf(isotherms), Tr, 0, Len(isotherms)], [idx \in Int |->
             IF idx = Len(isotherms) THEN Failed(TrAboveError)
             ELSE IF Elem(isotherms, idx).Tr = Tr
             THEN Let(interpolatePr(Elem(isotherms, idx).Points, Pr), [r \in Densities |->
                      IF r.err # NoError
                      THEN attemptFallback(isotherms, Tr, Pr, r.err)
                      ELSE r])
             ELSE IF idx = 0 THEN Failed(TrBelowError)
             ELSE BetweenIsotherms(isotherms, Tr, Pr, idx)])

---------------------------------------------------------------------------
(* The calls of ReducedDensity: every table that holds some of the         *)
(* isotherms 0.8, 0.9, 0.95 and 1.0, each with no points or with the       *)
(* points of a run of integer Pr between 1 and MaxPr, and queries on,      *)
(* between and outside the isotherms and the points.                       *)

MaxPr == 2

TableTrs == <<Lit[4, 5], Lit[9, 10], Lit[19, 20], Scale>>

\* The density the tables hold at (tr, pr).
RhoOf(tr, pr) == 3 * Scale - 2 * tr + (Mul[pr, pr] \div 8)

\* <<lo, hi>>: the points at Pr = lo .. hi; <<1, 0>>: no points;
\* <<0, 0>>: the isotherm is not in the table.
Absent == <<0, 0>>
Profiles == {<<lo, hi>> : lo \in 1 .. MaxPr, hi \in 0 .. MaxPr} \cup {Absent}
UsedProfiles == {p \in Profiles : p = Absent \/ p = <<1, 0>> \/ p[1] <= p[2]}

PointsOver(tr, p) ==
    [i \in 1 .. p[2] - p[1] + 1 |->
        [Pr |-> (p[1] + i - 1) * Scale, RhoR |-> RhoOf(tr, (p[1] + i - 1) * Scale)]]

TableOf(f) ==
    LET Present(k) == f[k] # Absent
    IN  Let(SelectSeq(<<1, 2, 3, 4>>, Present), [ks \in Seq(Int) |->
            [n \in 1 .. Len(ks) |->
                [Tr |-> TableTrs[ks[n]], Points |-> PointsOver(TableTrs[ks[n]], f[ks[n]])]]])

LydersenTables == {TableOf(f) : f \in [1 .. 4 -> UsedProfiles]}

DensityTrs ==
    {Lit[7, 10], Lit[4, 5], Lit[17, 20], Lit[9, 10], Lit[23, 25], Lit[19, 20],
     Lit[97, 100], Scale, Lit[11, 10]}

DensityPrs == {Lit[k, 2] : k \in 1 .. 2 * MaxPr + 1}

InitDensity ==
    /\ op = "ReducedDensity"
    /\ at = "call"
    /\ coef = <<0, 0, 0, 0>>
    /\ cfg = NoCfg
    /\ arg \in [Isotherms : LydersenTables, Tr : DensityTrs, Pr : DensityPrs]
    /\ ret = NoRet
    /\ sat = NoSat

CallReducedDensity ==
    /\ op = "ReducedDensity"
    /\ at = "call"
    /\ ret' = ReducedDensity(arg.Isotherms, arg.Tr, arg.Pr)
    /\ at' = "done"
    /\ UNCHANGED <<op, coef, cfg, arg, sat>>

NextDensity == CallReducedDensity

SpecDensity == InitDensity /\ [][NextDensity]_vars

DensityDone == op = "ReducedDensity" /\ at = "done"

\* Pr lies within the points of the isotherm.
Covers(points, Pr) ==
    Len(points) > 0 /\ points[1].Pr <= Pr /\ Pr <= points[Len(points)].Pr

\* The isotherms the value at Tr is taken from: the one of exactly Tr, or
\* the nearest below and above.
Needed(T, Tr) ==
    IF \E k \in 1 .. Len(T) : T[k].Tr = Tr
    THEN {k \in 1 .. Len(T) : T[k].Tr = Tr}
    ELSE {k \in 1 .. Len(T) :
             \/ T[k].Tr < Tr /\ \A m \in 1 .. Len(T) : T[m].Tr < Tr => T[m].Tr <= T[k].Tr
             \/ T[k].Tr > Tr /\ \A m \in 1 .. Len(T) : T[m].Tr > Tr => T[m].Tr >= T[k].Tr}

\* The isotherms 0.9 and 1.0 where both are in the table and cover Pr.
FallbackPair(T, Tr, Pr) ==
    IF /\ Tr > Lit[9, 10] /\ Tr < Scale
       /\ \E k \in 1 .. Len(T) : T[k].Tr = Lit[9, 10] /\ Covers(T[k].Points, Pr)
       /\ \E k \in 1 .. Len(T) : T[k].Tr = Scale /\ Covers(T[k].Points, Pr)
    THEN {k \in 1 .. Len(T) : T[k].Tr \in {Lit[9, 10], Scale}}
    ELSE {}

TrOutside(T, Tr) == Len(T) = 0 \/ Tr < T[1].Tr \/ Tr > T[Len(T)].Tr

\* The densities of the points of an isotherm that bracket Pr.
BracketRhos(points, Pr) ==
    {points[i].RhoR : i \in {i \in 1 .. Len(points) :
        \/ points[i].Pr <= Pr /\ \A m \in 1 .. Len(points) :
                                    points[m].Pr <= Pr => points[m].Pr <= points[i].Pr
        \/ points[i].Pr >= Pr /\ \A m \in 1 .. Len(points) :
                                    points[m].Pr >= Pr => points[m].Pr >= points[i].Pr}}

\* C21: ReducedDensity returns an error when Tr is above the highest or
\* below the lowest isotherm, and when Pr is outside the points of an
\* isotherm it needs unless 0.9 < Tr < 1.0 and the isotherms 0.9 and 1.0
\* both cover Pr; otherwise it returns a value between the densities of the
\* bracketing points (the table's value where Tr and Pr are both matched),
\* and interpolatePr never reads outside its points.
C21_ReducedDensityRange ==
    DensityDone =>
        LET T    == arg.Isotherms
            main == \A k \in Needed(T, arg.Tr) : Covers(T[k].Points, arg.Pr)
            from == IF main THEN Needed(T, arg.Tr) ELSE FallbackPair(T, arg.Tr, arg.Pr)
            rhos == UNION {BracketRhos(T[k].Points, arg.Pr) : k \in from}
        IN  /\ ret.err # IndexPanic
            /\ ret.err # NoError <=>
                  \/ TrOutside(T, arg.Tr)
                  \/ ~main /\ FallbackPair(T, arg.Tr, arg.Pr) = {}
            /\ ret.err # NoError => ret.value = 0
            /\ ret.err = NoError =>
                  /\ \E r \in rhos : r <= ret.value
                  /\ \E r \in rhos : ret.value <= r
                  /\ Cardinality(rhos) = 1 => rhos = {ret.value}

C21_Witness ==
    /\ DensityDone
    /\ arg.Tr = Lit[97, 100]
    /\ arg.Pr = MaxPr * Scale
    /\ Len(arg.Isotherms) = 3
    /\ ~Covers(arg.Isotherms[2].Points, arg.Pr)
    /\ ret.err = NoError
    /\ ret.value > RhoOf(Scale, arg.Pr)
    /\ ret.value < RhoOf(Lit[9, 10], arg.Pr)

---------------------------------------------------------------------------
(* package plot: verifySubstances and DrawPV as far as the title and the   *)
(* axis labels.  A state is the name of its substance; a colour is its     *)
(* name, NilColor the nil interface value.                                 *)

NilColor == "nil colour"
Black    == "black"

NilConfigError   == "configuration error: config cannot be nil"
NilTypeError     == "configuration error: 'Type' field (EOS model) is required"
InvalidExtError  == "invalid file extension"
MismatchError    == "substance mismatch"
DrawWrap         == "oops, something went wrong: "

validExts == {".eps", ".jpg", ".jpeg", ".pdf", ".png", ".svg", ".tex", ".tif", ".tiff"}

\* filepath.Ext(output) of the outputs used.
Ext(output) ==
    CASE output = "pv.png" -> ".png"
      [] output = "pv.svg" -> ".svg"
      [] output = "pv.pgn" -> ".pgn"
      [] output = "pv"     -> ""

\* The loop of verifySubstances from the state of index i on.
VerifyFrom[states \in Seq(STRING), i \in Int, prev \in STRING, curr \in STRING] ==
    IF i > Len(states) - 1 THEN [name |-> curr, err |-> NoError]
    ELSE IF Elem(states, i) # prev THEN [name |-> "", err |-> MismatchError]
    ELSE VerifyFrom[states, i + 1, Elem(states, i), Elem(states, i)]

\* verifySubstances(states...): prev = states[0].Substance.Name is read
\* before the loop.
verifySubstances(states) ==
    IF Len(states) = 0 THEN [name |-> "", err |-> IndexPanic]
    ELSE VerifyFrom[states, 0, Elem(states, 0), ""]

\* plot.New(): black text everywhere.
NewPlot ==
    [err |-> NoError, Title |-> "", TitleColor |-> Black,
     XLabel |-> "", XLabelColor |-> Black, YLabel |-> "", YLabelColor |-> Black]

\* A return of DrawPV before the plot exists.
NoPlot(e) == [NewPlot EXCEPT !.err = e]

\* p.Y.Label.Text = ...; if cfg.YLabelColor != nil
\* { p.X.Label.TextStyle.Color = cfg.YLabelColor }
StyleYLabel(p, c) ==
    [p EXCEPT !.YLabel = "Pressure (bar)",
              !.XLabelColor = IF c.YLabelColor # NilColor THEN c.YLabelColor ELSE @]

\* p.X.Label.Text = ...; if cfg.XLabelColor != nil { ... }
StyleXLabel(p, c) ==
    [p EXCEPT !.XLabel = "Molar Volume (cm3/mol)",
              !.XLabelColor = IF c.XLabelColor # NilColor THEN c.XLabelColor ELSE @]

\* The title of the plot.
StyleTitle(p, c, name) ==
    [p EXCEPT !.Title = IF c.Title = "" THEN "PV Diagram for " \o name ELSE c.Title,
              !.TitleColor = IF c.TitleColor # NilColor THEN c.TitleColor ELSE @]

\* DrawPV(cfg, output, states...) up to s0 := states[0]: the error, or the
\* plot with its title and axis labels.
DrawPV(c, output, states) ==
    IF c.nil THEN NoPlot(NilConfigError)
    ELSE IF c.Type = "nil" THEN NoPlot(NilTypeError)
    ELSE IF Ext(output) \notin validExts THEN NoPlot(InvalidExtError)
    ELSE LET verified == verifySubstances(states)
         IN  IF verified.err = IndexPanic THEN NoPlot(IndexPanic)
             ELSE IF verified.err # NoError THEN NoPlot(DrawWrap \o verified.err)
             ELSE StyleYLabel(StyleXLabel(StyleTitle(NewPlot, c, verified.name), c), c)

---------------------------------------------------------------------------
(* The calls of DrawPV: up to MaxStates states of two substances, the      *)
(* configuration nil or with each of its fields set and unset, and valid   *)
(* and invalid outputs.                                                    *)

MaxStates == 3

Substances == {"water", "methane"}
StateLists == UNION {[1 .. n -> Substances] : n \in 0 .. MaxStates}
LabelColors == {NilColor, "red", "blue"}
PVConfigs ==
    [nil : {FALSE}, Type : {"nil", "pr"}, Title : {"", "PV"},
     TitleColor : {NilColor, "red"}, XLabelColor : LabelColors, YLabelColor : LabelColors]
        \cup [nil : {TRUE}, Type : {"nil"}, Title : {""}, TitleColor : {NilColor},
              XLabelColor : {NilColor}, YLabelColor : {NilColor}]
Outputs == {"pv.png", "pv.svg", "pv.pgn", "pv"}

InitDraw ==
    /\ op = "DrawPV"
    /\ at = "call"
    /\ coef = <<0, 0, 0, 0>>
    /\ cfg = NoCfg
    /\ arg \in [cfg : PVConfigs, output : Outputs, states : StateLists]
    /\ ret = NoRet
    /\ sat = NoSat

CallDrawPV ==
    /\ op = "DrawPV"
    /\ at = "call"
    /\ ret' = DrawPV(arg.cfg, arg.output, arg.states)
    /\ at' = "done"
    /\ UNCHANGED <<op, coef, cfg, arg, sat>>

NextDraw == CallDrawPV

SpecDraw == InitDraw /\ [][NextDraw]_vars

DrawDone == op = "DrawPV" /\ at = "done"

\* DrawPV got as far as verifySubstances.
DrawVerified ==
    DrawDone /\ ~arg.cfg.nil /\ arg.cfg.Type # "nil" /\ Ext(arg.output) \in validExts

SameSubstance(states) == \A i, j \in 1 .. Len(states) : states[i] = states[j]

\* C22: for every list of states, the empty one included, DrawPV with a
\* valid configuration and extension fails with the substance mismatch
\* error when two states differ in substance and goes on with the shared
\* name otherwise; no call reads states[0] of an empty list.
C22_VerifySubstancesTotal ==
    DrawVerified =>
        /\ ret.err # IndexPanic
        /\ ~SameSubstance(arg.states) <=> ret.err = DrawWrap \o MismatchError
        /\ SameSubstance(arg.states) /\ arg.cfg.Title = "" /\ Len(arg.states) > 0 =>
              ret.Title = "PV Diagram for " \o arg.states[1]

\* The same for the lists of at least one state.
VerifiedOnNonEmptyLists ==
    DrawVerified /\ Len(arg.states) > 0 =>
        /\ ret.err # IndexPanic
        /\ ~SameSubstance(arg.states) <=> ret.err = DrawWrap \o MismatchError
        /\ SameSubstance(arg.states) /\ arg.cfg.Title = "" =>
              ret.Title = "PV Diagram for " \o arg.states[1]

\* C23: a non-nil YLabelColor is the colour of the Y-axis label, a non-nil
\* XLabelColor that of the X-axis label, and YLabelColor leaves the colour
\* of the X-axis label as XLabelColor or the default chose it.
C23_LabelColors ==
    DrawDone /\ ret.err = NoError =>
        /\ arg.cfg.YLabelColor # NilColor => ret.YLabelColor = arg.cfg.YLabelColor
        /\ arg.cfg.XLabelColor # NilColor => ret.XLabelColor = arg.cfg.XLabelColor
        /\ arg.cfg.XLabelColor = NilColor => ret.XLabelColor = Black

\* What the code does: the colour of the X-axis label is YLabelColor where
\* that is set, else XLabelColor where that is set, else black, and the
\* Y-axis label stays black.
LabelColorsAsCoded ==
    DrawDone /\ ret.err = NoError =>
        /\ ret.YLabelColor = Black
        /\ ret.XLabelColor =
              IF arg.cfg.YLabelColor # NilColor THEN arg.cfg.YLabelColor
              ELSE IF arg.cfg.XLabelColor # NilColor THEN arg.cfg.XLabelColor
              ELSE Black


\* A pass of SaturationPressure's loop in which SolveForVolume succeeded and
\* Clean left fewer than 3 real roots.
FewRootsPass ==
    /\ op = "SaturationPressure"
    /\ sat.pass.kind \notin {"none", "error"}
    /\ Len(sat.pass.roots) < 3

ThreeRootsPass ==
    /\ op = "SaturationPressure"
    /\ sat.pass.kind \notin {"none", "error"}
    /\ Len(sat.pass.roots) >= 3

\* Zl, Zv and Bdim of the last pass, computed anew from its trial pressure,
\* its roots and b.
PassZl == Div[Mul[sat.pass.trial, sat.pass.roots[1]], Mul[cfg.R, arg]]
PassZv == Div[Mul[sat.pass.trial, sat.pass.roots[Len(sat.pass.roots)]], Mul[cfg.R, arg]]
PassBdim == Div[Mul[sat.pass.B, sat.pass.trial], Mul[cfg.R, arg]]

\* C25: SaturationPressure calls LogFugacity only with Z > B: a pass with
\* Zl <= B or Zv <= B multiplies the trial pressure by 0.95 and ends with no
\* LogFugacity call and no convergence test, and in every pass that calls
\* LogFugacity the argument Z - B of the logarithm is strictly positive for
\* both roots.
C25_FugacityAboveB ==
    /\ ThreeRootsPass =>
          IF PassZl <= PassBdim \/ PassZv <= PassBdim
          THEN /\ sat.pass.fugacities = 0
               /\ ~sat.pass.tested
               /\ ~sat.pass.returns
               /\ sat.P = Mul[sat.pass.trial, Lit[95, 100]]
          ELSE /\ sat.pass.fugacities = 2
               /\ sat.pass.Zl = PassZl /\ sat.pass.Zv = PassZv /\ sat.pass.Bdim = PassBdim
    /\ (op = "SaturationPressure" /\ sat.pass.fugacities > 0) =>
          /\ ThreeRootsPass
          /\ sat.pass.Zl - sat.pass.Bdim > 0
          /\ sat.pass.Zv - sat.pass.Bdim > 0

C25_Witness ==
    /\ ThreeRootsPass
    /\ sat.pass.trial > 0
    /\ PassZl <= PassBdim
    /\ PassZv > PassBdim
    /\ sat.pass.kind = "perturb"

\* A pass of SaturationPressure's loop after which the loop goes on.
ContinuingPass ==
    /\ op = "SaturationPressure"
    /\ sat.pass.kind # "none"
    /\ ~sat.pass.returns

\* C26: after every pass that does not return the new trial pressure P' has
\* 0.8*P <= P' <= 1.2*P for the trial pressure P of the pass, so the trial
\* pressure is strictly positive in every such pass and after it, and
\* SolveForVolume fails with PressErr in no pass but the first.
C26_PressureWithinFifth ==
    /\ ContinuingPass =>
          /\ sat.pass.trial > 0
          /\ Mul[sat.pass.trial, Lit[8, 10]] <= sat.P
          /\ sat.P <= Mul[sat.pass.trial, Lit[12, 10]]
          /\ sat.P > 0
    /\ (op = "SaturationPressure" /\ sat.pass.kind = "error" /\ sat.pass.err = PressErr) =>
          sat.iter = 1

C26_Witness ==
    /\ ContinuingPass
    /\ sat.pass.kind = "update"
    /\ Exp[sat.pass.phil - sat.pass.phiv] < Lit[8, 10]
    /\ sat.P = Mul[sat.pass.trial, Lit[8, 10]]

\* C27: every failing return of SaturationPressure has pressure 0 and a
\* non-nil error; an error of SolveForVolume inside the loop comes back as
\* the very sentinel SolveForVolume returned, not wrapped; every failure is a
\* validation sentinel, the no-real-roots error or the did-not-converge
\* error.
C27_FailureReturns ==
    (SaturationDone /\ ret.err # NoError) =>
        /\ ret.P = 0
        /\ ret.err \in ValidationErrs \cup {NoRealRootsError, NoConvergenceError}
        /\ (sat.pass.kind = "error") =>
              /\ ret.err = SolveForVolume(IterCfg(cfg, arg, sat.pass.trial)).err
              /\ ret.err \in ValidationErrs
        /\ (ret.err \in ValidationErrs) => sat.pass.kind = "error"
        /\ (ret.err = NoRealRootsError) => sat.pass.kind = "no roots"

C27_Witness ==
    /\ SaturationDone
    /\ sat.pass.kind = "error"
    /\ ret = [P |-> 0, err |-> UniversalConstErr]
    /\ sat.pass.trial > 0

---------------------------------------------------------------------------
(* The calls of SolveCubic at the edge of its two branches: the depressed  *)
(* cubics y^3 - 3*k^2*y + d with d within MaxEdge units of the format of   *)
(* the values +2*k^3 and -2*k^3, where Delta changes its sign; k = 0 gives *)
(* p = 0.                                                                   *)

MaxCube == 3
MaxEdge == 8

EdgeCoefs ==
    {<<Scale, 0, -3 * k * k * Scale, s * (2 * k * k * k * Scale - j)>> :
        k \in 0 .. MaxCube, j \in -MaxEdge .. MaxEdge, s \in {-1, 1}}

InitTrig ==
    /\ op = "SolveCubic"
    /\ at = "call"
    /\ coef \in EdgeCoefs
    /\ cfg = NoCfg
    /\ arg = 0
    /\ ret = NoRet
    /\ sat = NoSat

SpecTrig == InitTrig /\ [][NextCubic]_vars

C29_ValidationPrecedence ==
    /\ (op = "SolveForVolume" /\ at = "done") =>
          /\ (cfg.T <= 0) => ret.err = TempErr
          /\ (cfg.T > 0 /\ cfg.P <= 0) => ret.err = PressErr
          /\ (cfg.T > 0 /\ cfg.P > 0 /\ (cfg.Tc <= 0 \/ cfg.Pc <= 0)) =>
                ret.err = CriticalPropErr
          /\ (cfg.T > 0 /\ cfg.P > 0 /\ cfg.Tc > 0 /\ cfg.Pc > 0 /\ cfg.R <= 0) =>
                ret.err = UniversalConstErr
    /\ (op = "Pressure" /\ at = "done") =>
          /\ (cfg.T <= 0) => ret.err = TempErr
          /\ (cfg.T > 0 /\ (cfg.Tc <= 0 \/ cfg.Pc <= 0)) => ret.err = CriticalPropErr
          /\ (cfg.T > 0 /\ cfg.Tc > 0 /\ cfg.Pc > 0 /\ cfg.R <= 0) =>
                ret.err = UniversalConstErr

C29_Witness ==
    /\ op = "SolveForVolume"
    /\ at = "done"
    /\ cfg.T > 0 /\ cfg.P <= 0 /\ cfg.Tc > 0 /\ cfg.Pc <= 0 /\ cfg.R <= 0
    /\ ret.err = PressErr

\* The configurations that agree with cf on Type, Tc, Pc, Acentric and R.
OtherTP(cf) == {[cf EXCEPT !.T = T, !.P = P] : T, P \in {-Scale, 2 * Scale}}

\* C30: the result of SaturationPressure(cfg, T) does not depend on cfg.T or
\* cfg.P: a configuration that differs from cfg in T and P only, nonpositive
\* values included, gives the same return at or above Tc, the same first
\* trial pressure, the same pass at every trial pressure, and so the same
\* returned pressure and error.
C30_IndependentOfTP ==
    (op = "SaturationPressure" /\ at # "call") =>
        \A other \in OtherTP(cfg) :
            /\ SaturationEntry(other, arg).returns = ~sat.guessed
            /\ (~sat.guessed) =>
                  ret = [P |-> SaturationEntry(other, arg).P,
                         err |-> SaturationEntry(other, arg).err]
            /\ (sat.guessed /\ sat.iter = 0) => sat.P = SaturationEntry(other, arg).P
            /\ (sat.pass.kind # "none") =>
                  /\ sat.pass = LoopPass(other, arg, sat.pass.trial)
                  /\ sat.pass.returns =>
                        (at = "done" /\ ret = [P |-> sat.pass.P, err |-> sat.pass.err])

C30_Witness ==
    /\ SaturationDone
    /\ sat.iter > 1
    /\ sat.pass.returns
    /\ cfg.T <= 0
    /\ cfg.P <= 0
    /\ \E other \in OtherTP(cfg) :
          other.T > 0 /\ other.P > 0 /\ sat.pass = LoopPass(other, arg, sat.pass.trial)
=============================================================================
